---- MODULE Spec2Model ----
(***************************************************************************)
(* A model of the macro trading simulator's core:                          *)
(*   - the data store tables (economic_releases, macro_events,             *)
(*     macro_variables_history) as DatabaseManager and DataProvider read   *)
(*     and write them,                                                     *)
(*   - controller/timeline_scheduler.py: TimelineScheduler,                *)
(*   - model/macro_evolution_engine.py: MacroEvolutionEngine.              *)
(*                                                                         *)
(* Units.  A simulated datetime is an integer number of days, a real       *)
(* instant an integer number of seconds.  The impacts stored in the event  *)
(* tables are decimals, written in tenths (0.5 is 5).  Growth, inflation   *)
(* and volatility are Python floats (IEEE doubles): a double is written as *)
(* Dbl(t) plus its distance in units of 2^-56 from the double nearest to   *)
(* t/10, and float_add adds two of them as the hardware does (round to     *)
(* nearest, ties to even).                                                 *)
(***************************************************************************)
EXTENDS Integers, Sequences, FiniteSets, TLC

\* ---------------------------------------------------------------- bounds
\* Rows per event table.
MaxRows == 1
\* Simulated datetimes of the events are 0..MaxDate (days).
MaxDate == 2
\* The scheduler is constructed at an instant of 0..MaxStartDelay (seconds).
MaxStartDelay == 1
\* The real clock is followed up to MaxNow (seconds).
MaxNow == 7
\* settings.DEMO_DAY_DURATION: real seconds per simulated day (from the
\* environment, validated positive in config/settings.py).
DEMO_DAY_DURATION == 3

\* ------------------------------------------------------------- utilities
\* Python's None, and a value that is not None.
None == << >>
Some(x) == << x >>
IsNone(v) == v = << >>
Val(v) == v[1]

Max(a, b) == IF a >= b THEN a ELSE b
Min(a, b) == IF a <= b THEN a ELSE b

\* The listings of a finite set: every sequence that holds each element once.
RECURSIVE SeqsOf(_)
SeqsOf(S) ==
    IF S = {} THEN { << >> }
    ELSE UNION { { << x >> \o p : p \in SeqsOf(S \ { x }) } : x \in S }

Range(s) == { s[i] : i \in 1..Len(s) }

\* list.sort(key=...) of Python is stable.  The elements are <<key, value>>
\* pairs: an element goes behind every element whose key is not greater.
RECURSIVE InsertByKey(_, _)
InsertByKey(x, s) ==
    IF s = << >> THEN << x >>
    ELSE IF x[1] < Head(s)[1] THEN << x >> \o s
    ELSE << Head(s) >> \o InsertByKey(x, Tail(s))

RECURSIVE SortByKey(_)
SortByKey(s) ==
    IF s = << >> THEN << >>
    ELSE InsertByKey(s[Len(s)], SortByKey(SubSeq(s, 1, Len(s) - 1)))

\* ------------------------------------------------------------- the store
VARIABLES
    economic_releases,        \* table: a set of release rows
    macro_events,             \* table: a set of macro event rows
    macro_variables_history   \* table: a set of macro state rows

\* The ids of the two event tables (UUIDs: no id is in both tables).
ReleaseId(i) == << "release", i >>
EventId(i) == << "event", i >>

vars_store == << economic_releases, macro_events, macro_variables_history >>

\* DatabaseManager.query_with_order on an event table: the rows that pass
\* the has_happened filter, ordered by the date column, cut to `limit` rows
\* when limit is truthy (None and 0 are not).  The database leaves the order
\* of rows with equal dates open, so this is the set of possible answers.
Column(r, order_by) ==
    CASE order_by = "release_date" -> r.release_date
      [] order_by = "event_date" -> r.event_date
      [] order_by = "timestamp" -> r.timestamp

OrderedListings(rows, order_by, ascending) ==
    { s \in SeqsOf(rows) :
        \A i \in 1..(Len(s) - 1) :
            IF ascending THEN Column(s[i], order_by) <= Column(s[i + 1], order_by)
            ELSE Column(s[i], order_by) >= Column(s[i + 1], order_by) }

Limited(s, limit) ==
    IF limit # 0 /\ limit < Len(s) THEN SubSeq(s, 1, limit) ELSE s

\* A query that drops the has_happened=False filter.
query_with_order_unfiltered(table, order_by, ascending, limit, future_only) ==
    { Limited(s, limit) : s \in OrderedListings(table, order_by, ascending) }

query_with_order(table, order_by, ascending, limit, future_only) ==
    LET rows == IF future_only THEN { r \in table : ~r.has_happened } ELSE table
    IN  { Limited(s, limit) : s \in OrderedListings(rows, order_by, ascending) }

\* A lookup that answers with a row of the table whatever the id asked for.
get_by_id_any(table, record_id) ==
    IF table # {}
    THEN Some(CHOOSE r \in table : TRUE)
    ELSE None

\* DatabaseManager.get_by_id: the row, or None.
get_by_id(table, record_id) ==
    IF \E r \in table : r.id = record_id
    THEN Some(CHOOSE r \in table : r.id = record_id)
    ELSE None

\* A row with the columns named in `data` set to the values `data` gives.
Merged(r, data) ==
    [ c \in DOMAIN r |-> IF c \in DOMAIN data THEN data[c] ELSE r[c] ]

\* DatabaseManager.update(table, record_id, data): the table after the
\* update; the row of that id takes the columns of `data` (the table is
\* unchanged when no row has the id).
update(table, record_id, data) ==
    { IF r.id = record_id THEN Merged(r, data) ELSE r : r \in table }

\* The rows DatabaseManager.update_where(table, data, **filters) updates:
\* those whose columns equal the filters' values.
Filtered(table, filters) ==
    { r \in table : \A k \in DOMAIN filters : r[k] = filters[k] }

\* DatabaseManager.update_where(table, data, **filters): the table after the
\* update.
update_where(table, data, filters) ==
    { IF r \in Filtered(table, filters) THEN Merged(r, data) ELSE r : r \in table }

\* A store that keeps one history row per cause: an insert for a cause that
\* already has a row stores nothing.
insert_once_per_cause(table, row, outcome) ==
    IF outcome = "fail" \/ (\E r \in table : r.cause_id = row.cause_id)
    THEN table
    ELSE table \cup { row }

\* A store that keeps one history row per timestamp: an insert replaces the
\* rows of the same timestamp.
insert_replacing_timestamp(table, row, outcome) ==
    IF outcome = "fail" THEN table
    ELSE { r \in table : r.timestamp # row.timestamp } \cup { row }

\* DatabaseManager.insert: the table after the insert of `row`.  It ends in
\* one of three ways: "ok" (the row is stored and returned), "fail" (the
\* request fails, nothing is stored) and "nodata" (the row is stored and the
\* response carries no data: "Insert succeeded but no data returned").
insert(table, row, outcome) ==
    IF outcome = "fail" THEN table ELSE table \cup { row }

\* ---------------------------------------------------------- DataProvider
\* DataProvider.get_all_future_events: both tables' future rows, tagged with
\* their type, releases first, then sorted by date (a stable sort).
DateOf(type, row) == IF type = "release" THEN row.release_date ELSE row.event_date

Tagged(type, rows) ==
    [ i \in 1..Len(rows) |-> << DateOf(type, rows[i]), << type, rows[i] >> >> ]
Untagged(pairs) == [ i \in 1..Len(pairs) |-> pairs[i][2] ]

\* A merge that lists the macro events before the releases.
merge_future_events_events_first(releases, events) ==
    Untagged(SortByKey(Tagged("event", events) \o Tagged("release", releases)))

merge_future_events(releases, events) ==
    Untagged(SortByKey(Tagged("release", releases) \o Tagged("event", events)))

get_all_future_events ==
    { merge_future_events(rs, es) :
        rs \in query_with_order(economic_releases, "release_date", TRUE, 0, TRUE),
        es \in query_with_order(macro_events, "event_date", TRUE, 0, TRUE) }

\* A comparison that hands over the macro event when the dates are equal.
earliest_of_strict(next_release, next_event) ==
    IF next_release # << >> /\ next_event # << >>
    THEN IF next_release[1].release_date < next_event[1].event_date
         THEN Some(<< "release", next_release[1] >>)
         ELSE Some(<< "event", next_event[1] >>)
    ELSE IF next_release # << >> THEN Some(<< "release", next_release[1] >>)
    ELSE IF next_event # << >> THEN Some(<< "event", next_event[1] >>)
    ELSE None

\* DataProvider.get_next_event, from the answers of its two queries (each a
\* list of at most one row): the earlier of the two, the release when the
\* dates are equal, None when both lists are empty.
earliest_of(next_release, next_event) ==
    IF next_release # << >> /\ next_event # << >>
    THEN IF next_release[1].release_date <= next_event[1].event_date
         THEN Some(<< "release", next_release[1] >>)
         ELSE Some(<< "event", next_event[1] >>)
    ELSE IF next_release # << >> THEN Some(<< "release", next_release[1] >>)
    ELSE IF next_event # << >> THEN Some(<< "event", next_event[1] >>)
    ELSE None

\* The answers DataProvider.get_next_event may give on the present tables.
data_provider_next_events ==
    { earliest_of(nr, ne) :
        nr \in query_with_order(economic_releases, "release_date", TRUE, 1, TRUE),
        ne \in query_with_order(macro_events, "event_date", TRUE, 1, TRUE) }

\* ----------------------------------------------------- TimelineScheduler
VARIABLES
    provided,                 \* what get_all_future_events returned to __init__
    events,                   \* self.events: the timeline
    current_index,            \* self.current_index
    simulation_start_time,    \* self.simulation_start_time (None or a day)
    real_start_time,          \* self.real_start_time (None or an instant)
    now,                      \* the real clock, datetime.now()
    pc,                       \* "idle", or "sleeping" inside wait_until_next_event
    wait_time,                \* wait_until_next_event's local wait_time
    chunked,                  \* whether it sleeps in the loop of 1 s chunks
    pending_event,            \* wait_until_next_event's local event while it sleeps
    delivered,                \* the events skip/wait have returned, in order
    result                    \* the outcome of the last call

vars_sched == << provided, events, current_index, simulation_start_time,
                 real_start_time, now, pc, wait_time, chunked, pending_event,
                 delivered, result >>

\* The outcome of a call: the operation, its arguments, the error it raised
\* ("none" when it returned) and what it returned.
Outcome(op, args, err, ret) == [ op |-> op, args |-> args, err |-> err, ret |-> ret ]

\* TimelineScheduler._load_events: one timeline entry per provided event, with
\* its date parsed, then sorted by sim_datetime (a stable sort).
TimelineEntry(pair) ==
    [ type |-> pair[1], data |-> pair[2], sim_datetime |-> DateOf(pair[1], pair[2]) ]

Keyed(entries) == [ i \in 1..Len(entries) |-> << entries[i].sim_datetime, entries[i] >> ]

\* A _load_events that trusts the provider's order and does not sort.
load_events_unsorted(all_events) ==
    [ i \in 1..Len(all_events) |-> TimelineEntry(all_events[i]) ]

load_events(all_events) ==
    Untagged(SortByKey(Keyed([ i \in 1..Len(all_events) |-> TimelineEntry(all_events[i]) ])))

\* The arithmetic of _simulated_time_to_real_time: the simulated days since
\* the anchor, times the seconds per simulated day.
real_offset_of(sim_datetime, anchor, day_duration) ==
    (sim_datetime - anchor) * day_duration

\* The arithmetic of _get_current_simulated_time: the anchor plus
\* real_elapsed / day_duration days, kept as the fraction <<num, den>> of days.
simulated_time_at(real_elapsed, anchor, day_duration) ==
    << anchor * day_duration + real_elapsed, day_duration >>

\* A conversion that measures the simulated days from day 0 and not from the
\* anchor.
simulated_time_to_real_time_from_epoch(sim_datetime) ==
    real_offset_of(sim_datetime, 0, DEMO_DAY_DURATION)

\* TimelineScheduler._simulated_time_to_real_time, once started.
simulated_time_to_real_time(sim_datetime) ==
    real_offset_of(sim_datetime, Val(simulation_start_time), DEMO_DAY_DURATION)

\* A get_next_event whose conversion lacks the check of the anchor: before
\* start() the subtraction from None raises a TypeError instead.
get_next_event_outcome_unchecked(op) ==
    IF current_index >= Len(events) THEN Outcome(op, << >>, "none", None)
    ELSE IF IsNone(simulation_start_time) THEN Outcome(op, << >>, "TypeError", None)
    ELSE Outcome(op, << >>, "none",
                 Some([ type |-> events[current_index + 1].type,
                        data |-> events[current_index + 1].data,
                        sim_datetime |-> events[current_index + 1].sim_datetime,
                        real_time_seconds |->
                            (events[current_index + 1].sim_datetime
                                 - Val(simulation_start_time)) * DEMO_DAY_DURATION ]))

\* TimelineScheduler.get_next_event: None when the timeline is exhausted, the
\* "NotStarted" error when the anchor is unset, else the event at the cursor
\* with its real-time offset.
get_next_event_outcome(op) ==
    IF current_index >= Len(events) THEN Outcome(op, << >>, "none", None)
    ELSE IF IsNone(simulation_start_time) THEN Outcome(op, << >>, "NotStarted", None)
    ELSE Outcome(op, << >>, "none",
                 Some([ type |-> events[current_index + 1].type,
                        data |-> events[current_index + 1].data,
                        sim_datetime |-> events[current_index + 1].sim_datetime,
                        real_time_seconds |->
                            simulated_time_to_real_time(events[current_index + 1].sim_datetime) ]))

\* The scheduler fields the operations below leave alone in groups.
vars_timeline == << provided, events >>
vars_anchors == << simulation_start_time, real_start_time >>
vars_sleep == << pc, wait_time, chunked, pending_event >>

\* A start() that rewinds the cursor.
start_rewinds ==
    /\ pc = "idle"
    /\ IF events = << >>
       THEN /\ result' = Outcome("start", << >>, "EmptyTimeline", None)
            /\ UNCHANGED << vars_anchors, current_index >>
       ELSE /\ simulation_start_time' = Some(events[1].sim_datetime)
            /\ real_start_time' = Some(now)
            /\ current_index' = 0
            /\ result' = Outcome("start", << >>, "none", None)
    /\ UNCHANGED << vars_store, vars_timeline, now, vars_sleep, delivered >>

\* A start() that takes the real anchor before it looks at the timeline.
start_anchors_first ==
    /\ pc = "idle"
    /\ real_start_time' = Some(now)
    /\ IF events = << >>
       THEN /\ result' = Outcome("start", << >>, "EmptyTimeline", None)
            /\ UNCHANGED simulation_start_time
       ELSE /\ simulation_start_time' = Some(events[1].sim_datetime)
            /\ result' = Outcome("start", << >>, "none", None)
    /\ UNCHANGED << vars_store, vars_timeline, current_index, now, vars_sleep, delivered >>

\* TimelineScheduler.start: fails on an empty timeline ("No events loaded"),
\* else sets both anchors.
start ==
    /\ pc = "idle"
    /\ IF events = << >>
       THEN /\ result' = Outcome("start", << >>, "EmptyTimeline", None)
            /\ UNCHANGED vars_anchors
       ELSE /\ simulation_start_time' = Some(events[1].sim_datetime)
            /\ real_start_time' = Some(now)
            /\ result' = Outcome("start", << >>, "none", None)
    /\ UNCHANGED << vars_store, vars_timeline, current_index, now, vars_sleep, delivered >>

\* TimelineScheduler.get_next_event.
get_next_event ==
    /\ pc = "idle"
    /\ result' = get_next_event_outcome("get_next_event")
    /\ UNCHANGED << vars_store, vars_timeline, current_index, vars_anchors, now,
                    vars_sleep, delivered >>

\* A skip_to_next_event that moves the cursor whatever get_next_event returned.
skip_always_advances ==
    /\ pc = "idle"
    /\ LET o == get_next_event_outcome("skip_to_next_event")
       IN  /\ result' = o
           /\ current_index' = current_index + 1
           /\ delivered' = IF o.err = "none" /\ ~IsNone(o.ret)
                           THEN Append(delivered, Val(o.ret)) ELSE delivered
    /\ UNCHANGED << vars_store, vars_timeline, vars_anchors, now, vars_sleep >>

\* TimelineScheduler.skip_to_next_event: the cursor moves when get_next_event
\* returned an event.
\* A skip that moves the cursor past the event after the one it returns.
skip_to_next_event_by_two ==
    /\ pc = "idle"
    /\ LET o == get_next_event_outcome("skip_to_next_event")
       IN  /\ result' = o
           /\ IF o.err = "none" /\ ~IsNone(o.ret)
              THEN /\ current_index' = Min(current_index + 2, Len(events))
                   /\ delivered' = Append(delivered, Val(o.ret))
              ELSE UNCHANGED << current_index, delivered >>
    /\ UNCHANGED << vars_store, vars_timeline, vars_anchors, now, vars_sleep >>

skip_to_next_event ==
    /\ pc = "idle"
    /\ LET o == get_next_event_outcome("skip_to_next_event")
       IN  /\ result' = o
           /\ IF o.err = "none" /\ ~IsNone(o.ret)
              THEN /\ current_index' = current_index + 1
                   /\ delivered' = Append(delivered, Val(o.ret))
              ELSE UNCHANGED << current_index, delivered >>
    /\ UNCHANGED << vars_store, vars_timeline, vars_anchors, now, vars_sleep >>

\* TimelineScheduler.wait_until_next_event, up to its first sleep: returns
\* None or raises as get_next_event does; with nothing to wait for it moves
\* the cursor and returns the event; else it starts to sleep, in chunks of at
\* most 1 s when it has more than 5 s to wait and in one sleep otherwise.
\* (The clock is bounded: a wait that would end after MaxNow is not started.)
wait_until_next_event ==
    /\ pc = "idle"
    /\ LET o == get_next_event_outcome("wait_until_next_event")
       IN  IF o.err # "none" \/ IsNone(o.ret)
           THEN /\ result' = o
                /\ UNCHANGED << current_index, delivered, vars_sleep >>
           ELSE LET elapsed == now - Val(real_start_time)
                    wt == Val(o.ret).real_time_seconds - elapsed
                IN  IF wt > 0
                    THEN /\ now + wt <= MaxNow
                         /\ pc' = "sleeping"
                         /\ wait_time' = wt
                         /\ chunked' = (wt > 5)
                         /\ pending_event' = o.ret
                         /\ result' = Outcome("sleeping", << >>, "none", None)
                         /\ UNCHANGED << current_index, delivered >>
                    ELSE /\ current_index' = current_index + 1
                         /\ delivered' = Append(delivered, Val(o.ret))
                         /\ result' = o
                         /\ UNCHANGED vars_sleep
    /\ UNCHANGED << vars_store, vars_timeline, vars_anchors, now >>

\* A time.sleep may return up to MaxOversleep seconds after the duration asked
\* for (never before it).
MaxOversleep == 1

\* The duration wait_until_next_event asks time.sleep for, while it sleeps:
\* min(1.0, wait_time) in the chunk loop, the whole wait_time otherwise.
sleep_chunk == IF chunked THEN Min(1, wait_time) ELSE wait_time

\* A chunk loop that returns the event after its first chunk.
sleep_first_chunk_only ==
    /\ pc = "sleeping"
    /\ \E extra \in 0..MaxOversleep :
           /\ now + sleep_chunk + extra <= MaxNow
           /\ now' = now + sleep_chunk + extra
    /\ pc' = "idle"
    /\ wait_time' = 0
    /\ chunked' = FALSE
    /\ pending_event' = None
    /\ current_index' = current_index + 1
    /\ delivered' = Append(delivered, Val(pending_event))
    /\ result' = Outcome("wait_until_next_event", << >>, "none", pending_event)
    /\ UNCHANGED << vars_store, vars_timeline, vars_anchors >>

\* One time.sleep of wait_until_next_event and what follows it: the next turn
\* of the chunk loop, or the move of the cursor and the return of the event.
sleep ==
    /\ pc = "sleeping"
    /\ LET left == wait_time - sleep_chunk
       IN  /\ \E extra \in 0..MaxOversleep :
                  /\ now + sleep_chunk + extra <= MaxNow
                  /\ now' = now + sleep_chunk + extra
           /\ IF chunked /\ left > 0
              THEN /\ wait_time' = left
                   /\ result' = Outcome("sleeping", << >>, "none", None)
                   /\ UNCHANGED << pc, chunked, pending_event, current_index, delivered >>
              ELSE /\ pc' = "idle"
                   /\ wait_time' = 0
                   /\ chunked' = FALSE
                   /\ pending_event' = None
                   /\ current_index' = current_index + 1
                   /\ delivered' = Append(delivered, Val(pending_event))
                   /\ result' = Outcome("wait_until_next_event", << >>, "none", pending_event)
    /\ UNCHANGED << vars_store, vars_timeline, vars_anchors >>

\* A wait that has moved the cursor before it sleeps: the interruption finds
\* the event already consumed.
interrupt_after_advance ==
    /\ pc = "sleeping"
    /\ pc' = "idle"
    /\ wait_time' = 0
    /\ chunked' = FALSE
    /\ pending_event' = None
    /\ current_index' = current_index + 1
    /\ result' = Outcome("wait_until_next_event", << >>, "Interrupted", None)
    /\ UNCHANGED << vars_store, vars_timeline, vars_anchors, now, delivered >>

\* time.sleep raises (KeyboardInterrupt on a shutdown signal): the exception
\* leaves wait_until_next_event before the cursor moves.
interrupt ==
    /\ pc = "sleeping"
    /\ pc' = "idle"
    /\ wait_time' = 0
    /\ chunked' = FALSE
    /\ pending_event' = None
    /\ result' = Outcome("wait_until_next_event", << >>, "Interrupted", None)
    /\ UNCHANGED << vars_store, vars_timeline, current_index, vars_anchors, now, delivered >>

\* TimelineScheduler._get_current_simulated_time, once started: the anchor
\* plus elapsed / DEMO_DAY_DURATION days, kept as the fraction <<num, den>>.
get_current_simulated_time ==
    simulated_time_at(now - Val(real_start_time), Val(simulation_start_time),
                      DEMO_DAY_DURATION)

RECURSIVE Pow2(_)
Pow2(n) == IF n <= 0 THEN 1 ELSE 2 * Pow2(n - 1)

\* What rounding to a multiple of unit adds to a magnitude whose bits below
\* 2 * unit are `low`: to the nearest multiple, a tie to the even one.
RoundToEven(low, unit) ==
    IF 2 * (low % unit) < unit THEN -(low % unit)
    ELSE IF 2 * (low % unit) > unit THEN unit - (low % unit)
    ELSE IF (low \div unit) % 2 = 1 THEN unit - (low % unit)
    ELSE -(low % unit)

RECURSIVE GCD(_, _)
GCD(a, b) == IF b = 0 THEN a ELSE GCD(b, a % b)

\* 2^n modulo m, by squaring.
Squared(x) == x * x

RECURSIVE Pow2Mod(_, _)
Pow2Mod(n, m) ==
    IF n = 0 THEN 1 % m
    ELSE IF n % 2 = 0 THEN Squared(Pow2Mod(n \div 2, m)) % m
    ELSE (2 * Pow2Mod(n - 1, m)) % m

\* The least k with p * 2^k >= t (0 < p <= t).
RECURSIVE ShiftOf(_, _)
ShiftOf(p, t) == IF p >= t THEN 0 ELSE 1 + ShiftOf(2 * p, t)

\* 1 when the quotient is rounded up (p / t is in lowest terms, so the
\* remainder is never half of t).
DivUp(rem, t) == IF 2 * rem > t THEN 1 ELSE 0

\* progress_pct = processed_events / total_events * 100 is computed in
\* Python floats (IEEE 754 doubles): the quotient is rounded to the nearest
\* double, and so is its product with 100.  The model writes the resulting
\* double as <<num, den, dev, scale>>, which stands for the number
\*     num / den + dev / (den * 2^scale)
\* num / den is the exact percentage and the second term what the two
\* roundings added (dev = 0: the double is the exact percentage).  With
\* p / t in lowest terms and k = ShiftOf(p, t), the double nearest p / t is
\* a whole number m of units of 2^-(52 + k).
\*
\* t times what the two roundings add to 100 * p / t, in units of
\* 2^-(52 + k).  `bits` is p * 2^(52 + k) modulo 256 * t, which holds the
\* remainder of the division by t and the last eight bits of its quotient.
\* The rounding of the quotient adds 100 times its step; the rounding of
\* the product 100 * m, whose last eight bits are those of 100 times the
\* last eight bits of m, adds a step to a multiple of `unit`.
percentage_deviation(t, bits, unit) ==
    100 * (DivUp(bits % t, t) * t - (bits % t))
        + t * RoundToEven((100 * (((bits \div t) + DivUp(bits % t, t)) % 256)) % 256, unit)

\* processed_events / total_events * 100 in floats, total_events > 0.  The
\* spacing of the doubles around 100 * m is 64 units when 100 * m has 59
\* bits (100 * p * 2^k < 128 * t) and 128 units when it has 60.
RECURSIVE float_percentage(_, _)
float_percentage(processed_events, total_events) ==
    IF processed_events = 0 THEN << 0, 1, 0, 0 >>
    ELSE IF GCD(processed_events, total_events) > 1
    THEN float_percentage(processed_events \div GCD(processed_events, total_events),
                          total_events \div GCD(processed_events, total_events))
    ELSE << 100 * processed_events,
            total_events,
            percentage_deviation(
                total_events,
                (processed_events
                    * Pow2Mod(52 + ShiftOf(processed_events, total_events), 256 * total_events))
                        % (256 * total_events),
                IF 25 * processed_events * Pow2(ShiftOf(processed_events, total_events))
                       < 32 * total_events
                THEN 64 ELSE 128),
            52 + ShiftOf(processed_events, total_events) >>

\* A progress report whose percentage is that of the remaining events.
progress_of_remaining ==
    LET total_events == Len(events)
        processed_events == current_index
    IN  [ total_events |-> total_events,
          processed_events |-> processed_events,
          remaining_events |-> total_events - processed_events,
          progress_percentage |->
              IF total_events > 0
              THEN float_percentage(total_events - processed_events, total_events)
              ELSE << 0, 1, 0, 0 >>,
          current_simulated_time |->
              IF ~IsNone(real_start_time) THEN Some(get_current_simulated_time)
              ELSE None ]

\* TimelineScheduler.get_progress.  progress_percentage is the float
\* processed / total * 100, written <<num, den, dev, scale>>, and 0
\* (<<0, 1, 0, 0>>) for an empty timeline.
progress ==
    LET total_events == Len(events)
        processed_events == current_index
    IN  [ total_events |-> total_events,
          processed_events |-> processed_events,
          remaining_events |-> total_events - processed_events,
          progress_percentage |->
              IF total_events > 0 THEN float_percentage(processed_events, total_events)
              ELSE << 0, 1, 0, 0 >>,
          current_simulated_time |->
              IF ~IsNone(real_start_time) THEN Some(get_current_simulated_time)
              ELSE None ]

get_progress_requires_start ==
    /\ pc = "idle"
    /\ result' = IF IsNone(real_start_time)
                 THEN Outcome("get_progress", << >>, "NotStarted", None)
                 ELSE Outcome("get_progress", << >>, "none", Some(progress))
    /\ UNCHANGED << vars_store, vars_timeline, current_index, vars_anchors, now,
                    vars_sleep, delivered >>

get_progress ==
    /\ pc = "idle"
    /\ result' = Outcome("get_progress", << >>, "none", Some(progress))
    /\ UNCHANGED << vars_store, vars_timeline, current_index, vars_anchors, now,
                    vars_sleep, delivered >>

\* DataProvider.mark_release_as_happened / mark_event_as_happened: the row's
\* flag is set and the updated row returned.  DataProviderError when the
\* request fails (outcome "fail": nothing changes) and when the id is one the
\* table does not hold ("Update succeeded but no data returned").
mark_release_as_happened(release_id, outcome) ==
    /\ pc = "idle"
    /\ economic_releases' =
           IF outcome = "fail" THEN economic_releases
           ELSE update(economic_releases, release_id, [ has_happened |-> TRUE ])
    /\ result' = IF outcome = "fail" \/ IsNone(get_by_id(economic_releases, release_id))
                 THEN Outcome("mark_release_as_happened", << release_id >>, "DataProviderError", None)
                 ELSE Outcome("mark_release_as_happened", << release_id >>, "none",
                              get_by_id(update(economic_releases, release_id, [ has_happened |-> TRUE ]),
                                        release_id))
    /\ UNCHANGED << macro_events, macro_variables_history >>

mark_event_as_happened(event_id, outcome) ==
    /\ pc = "idle"
    /\ macro_events' =
           IF outcome = "fail" THEN macro_events
           ELSE update(macro_events, event_id, [ has_happened |-> TRUE ])
    /\ result' = IF outcome = "fail" \/ IsNone(get_by_id(macro_events, event_id))
                 THEN Outcome("mark_event_as_happened", << event_id >>, "DataProviderError", None)
                 ELSE Outcome("mark_event_as_happened", << event_id >>, "none",
                              get_by_id(update(macro_events, event_id, [ has_happened |-> TRUE ]),
                                        event_id))
    /\ UNCHANGED << economic_releases, macro_variables_history >>

\* The tables of the store the model holds, the rows of the table of that
\* name, and the store with the rows of that table replaced.  A call that
\* names another table (narratives) works on rows the model does not hold.
StoreTables == { "economic_releases", "macro_events", "macro_variables_history" }

TableNamed(table) ==
    CASE table = "economic_releases" -> economic_releases
      [] table = "macro_events" -> macro_events
      [] table = "macro_variables_history" -> macro_variables_history

StoreWith(table, rows) ==
    /\ economic_releases' = IF table = "economic_releases" THEN rows ELSE economic_releases
    /\ macro_events' = IF table = "macro_events" THEN rows ELSE macro_events
    /\ macro_variables_history' =
           IF table = "macro_variables_history" THEN rows ELSE macro_variables_history

\* A direct call of DatabaseManager.insert(table, data); `row` is data with
\* the id the store gives it.  The request ends "ok" (the row is stored and
\* returned), "fail" (nothing is stored) or "nodata" (the row is stored, the
\* response carries no data); both failures raise DatabaseError.
database_insert(table, row, outcome) ==
    /\ pc = "idle"
    /\ table \in StoreTables
    /\ StoreWith(table, insert(TableNamed(table), row, outcome))
    /\ result' = IF outcome = "ok"
                 THEN Outcome("insert", << table >>, "none", Some(row))
                 ELSE Outcome("insert", << table >>, "DatabaseError", None)

\* A direct call of DatabaseManager.update(table, record_id, data): the
\* updated row is returned; DatabaseError when the request fails (nothing
\* changes) and when the response carries no data, as it does when no row
\* has the id.
database_update(table, record_id, data, outcome) ==
    /\ pc = "idle"
    /\ table \in StoreTables
    /\ StoreWith(table, IF outcome = "fail" THEN TableNamed(table)
                        ELSE update(TableNamed(table), record_id, data))
    /\ result' =
           IF outcome # "ok" \/ IsNone(get_by_id(TableNamed(table), record_id))
           THEN Outcome("update", << table, record_id >>, "DatabaseError", None)
           ELSE Outcome("update", << table, record_id >>, "none",
                        get_by_id(update(TableNamed(table), record_id, data), record_id))

\* A direct call of DatabaseManager.update_where(table, data, **filters): it
\* returns the updated rows (here as a set); DatabaseError when the request
\* fails, and then nothing changes.
database_update_where(table, data, filters, outcome) ==
    /\ pc = "idle"
    /\ table \in StoreTables
    /\ StoreWith(table, IF outcome = "fail" THEN TableNamed(table)
                        ELSE update_where(TableNamed(table), data, filters))
    /\ result' =
           IF outcome = "fail"
           THEN Outcome("update_where", << table >>, "DatabaseError", None)
           ELSE Outcome("update_where", << table >>, "none",
                        Some({ Merged(r, data) : r \in Filtered(TableNamed(table), filters) }))

\* A call of DataProvider.get_next_event: the earlier of the answers of its
\* two queries, or DataProviderError when a query fails (a DatabaseError).
data_provider_get_next_event(outcome) ==
    /\ pc = "idle"
    /\ IF outcome = "fail"
       THEN result' = Outcome("DataProvider.get_next_event", << >>, "DataProviderError", None)
       ELSE \E e \in data_provider_next_events :
                result' = Outcome("DataProvider.get_next_event", << >>, "none", e)
    /\ UNCHANGED vars_store

\* A call of DataProvider.get_all_future_events: the merged list, or
\* DataProviderError when a query fails.
data_provider_get_all_future_events(outcome) ==
    /\ pc = "idle"
    /\ IF outcome = "fail"
       THEN result' = Outcome("DataProvider.get_all_future_events", << >>,
                              "DataProviderError", None)
       ELSE \E g \in get_all_future_events :
                result' = Outcome("DataProvider.get_all_future_events", << >>, "none", Some(g))
    /\ UNCHANGED vars_store

\* Real time passes between two calls.
tick ==
    /\ pc = "idle"
    /\ now < MaxNow
    /\ now' = now + 1
    /\ result' = Outcome("tick", << >>, "none", None)

\* -------------------------------------------------- MacroEvolutionEngine
VARIABLES
    current_state_cache,      \* self._current_state (None until a state is read)
    in_flight                 \* per caller: the apply call it is in, its locals

\* The callers (threads) that may be inside get_current_state,
\* apply_release_impact or apply_event_impact of one engine at the same time,
\* and a caller that is in no call.  A caller's record holds the position of
\* its call and the call's locals: the event looked up, the answer of the
\* history query, `current`, `timestamp`, and the row it had inserted.
Callers == { "first", "second", "third" }
NoCall ==
    [ pc |-> "idle", op |-> "", cause_type |-> "", event_id |-> None, event |-> None,
      answer |-> None, current |-> None, timestamp |-> None, appended |-> None,
      err |-> "none" ]
NoCalls == [ c \in Callers |-> NoCall ]

\* Rows of the history table the model may hold, and the greatest limit
\* get_history is called with.
MaxHistory == 3
MaxLimit == 2

\* Growth, inflation and volatility are Python floats, IEEE 754 doubles.
\* Every double the program meets is the double nearest a number of tenths
\* (a literal, a decimal of the store) or a sum of such doubles, and is a
\* whole number of units of 2^-56.  The model writes a double as
\*     t * Grain + k
\* where t/10 is the nearest number of tenths and k, far smaller than Grain,
\* is the distance in units of 2^-56 from the double nearest t/10; the order
\* of the doubles is the order of these integers.
Grain == 100000

\* float(x) of a decimal of t tenths, and the literal with that many tenths.
Dbl(t) == t * Grain

TenthsOf(a) ==
    IF a >= 0 THEN (a + Grain \div 2) \div Grain
    ELSE -((Grain \div 2 - a) \div Grain)

UlpsOf(a) == a - TenthsOf(a) * Grain

RECURSIVE Log2Floor(_)
Log2Floor(n) == IF n < 2 THEN 0 ELSE 1 + Log2Floor(n \div 2)

\* x modulo m for any integer x, and the quotient of a multiple of ten.
ModOf(x, m) == IF x >= 0 THEN x % m ELSE (m - ((-x) % m)) % m
TenthOf(x) == IF x >= 0 THEN x \div 10 ELSE -((-x) \div 10)

\* The binary logarithm of the spacing of the doubles around t/10, t > 0
\* (53 significant bits), in units of 2^-56.
DropOf(t) ==
    IF t < 2 THEN 0
    ELSE IF t < 3 THEN 1
    ELSE IF t < 5 THEN 2
    ELSE 3 + Log2Floor(t \div 5)

\* t/10 is a power of two (0.5, 1, 2, 4, ...): the spacing halves below it.
IsPowerOfTwo(t) == t >= 5 /\ t = 5 * Pow2(Log2Floor(t \div 5))

\* Ten times the distance from t/10 to the double nearest it, units of 2^-56.
Rho(t) ==
    IF t = 0 THEN 0
    ELSE LET d == DropOf(t)
             m == ((t % 10) * Pow2Mod(56 - d, 10)) % 10
         IN  IF m < 5 THEN -(m * Pow2(d)) ELSE (10 - m) * Pow2(d)

SignedRho(t) == IF t < 0 THEN -Rho(-t) ELSE Rho(t)

\* The sign of the exact sum t/10 + exact * 2^-56.
SignOf(t, exact) == IF t > 0 \/ (t = 0 /\ exact >= 0) THEN 1 ELSE -1

\* The binary logarithm of the spacing of the doubles at the magnitude
\* tm/10 + km * 2^-56 (just below a power of two the spacing is half).
SpacingOf(tm, km) ==
    IF tm = 0 THEN 0
    ELSE IF km < 0 /\ IsPowerOfTwo(tm) THEN DropOf(tm) - 1
    ELSE DropOf(tm)

\* The bits of the magnitude tm/10 + km * 2^-56 below 2^(d+1), in units of
\* 2^-56.
LowBits(tm, km, d) ==
    ModOf(Pow2(d + 1) * (((tm % 10) * Pow2Mod(55 - d, 10)) % 10) + Rho(tm) + 10 * km,
          10 * Pow2(d + 1)) \div 10

\* The double nearest the exact sum t/10 + exact * 2^-56 of the given sign.
float_round_signed(t, exact, sign) ==
    t * Grain + exact
        + sign * RoundToEven(LowBits(sign * t, sign * exact, SpacingOf(sign * t, sign * exact)),
                             Pow2(SpacingOf(sign * t, sign * exact)))

float_round(t, exact) == float_round_signed(t, exact, SignOf(t, exact))

\* a + b of two floats: the exact sum rounded to the nearest double, ties to
\* the even one.
float_add(a, b) ==
    float_round(TenthsOf(a) + TenthsOf(b),
                UlpsOf(a) + UlpsOf(b)
                    + TenthOf(SignedRho(TenthsOf(a)) + SignedRho(TenthsOf(b))
                                  - SignedRho(TenthsOf(a) + TenthsOf(b))))

\* The state dictionary the engine returns for a history row.
StateOf(row) ==
    [ growth |-> row.growth, inflation |-> row.inflation,
      volatility |-> row.volatility, timestamp |-> row.timestamp ]

\* The answers query_with_order('macro_variables_history', order_by='timestamp',
\* ascending=False, limit=1) may give: the rows of the greatest timestamp.
latest_rows == query_with_order(macro_variables_history, "timestamp", FALSE, 1, FALSE)

\* The sums without the floor on volatility.
new_values_unfloored(current, event) ==
    [ growth |-> float_add(current.growth, Dbl(event.impact_growth)),
      inflation |-> float_add(current.inflation, Dbl(event.impact_inflation)),
      volatility |-> float_add(current.volatility, Dbl(event.impact_volatility)) ]

\* The values apply_release_impact / apply_event_impact compute from the
\* current state and the event's row: the sums of the floats (the event's
\* decimals through float()), volatility floored at 0.0.
new_values(current, event) ==
    [ growth |-> float_add(current.growth, Dbl(event.impact_growth)),
      inflation |-> float_add(current.inflation, Dbl(event.impact_inflation)),
      volatility |-> Max(Dbl(0), float_add(current.volatility, Dbl(event.impact_volatility))) ]

\* The row the store creates for an insert into macro_variables_history (it
\* generates the id).
history_row(timestamp, values, cause_type, cause_id) ==
    [ id |-> Cardinality(macro_variables_history) + 1,
      timestamp |-> timestamp,
      growth |-> values.growth,
      inflation |-> values.inflation,
      volatility |-> values.volatility,
      cause_type |-> cause_type,
      cause_id |-> cause_id ]

\* A get_current_state that writes a first entry into an empty history and
\* returns it.
get_current_state_bootstrapping(outcome) ==
    /\ IF outcome = "fail"
       THEN /\ result' = Outcome("get_current_state", << >>, "StoreUnavailable", None)
            /\ UNCHANGED << macro_variables_history, current_state_cache >>
       ELSE IF macro_variables_history = {}
       THEN LET row == [ id |-> 1, timestamp |-> now, growth |-> 0, inflation |-> 0,
                         volatility |-> 0, cause_type |-> "initial", cause_id |-> None ]
            IN  /\ macro_variables_history' = { row }
                /\ current_state_cache' = Some(StateOf(row))
                /\ result' = Outcome("get_current_state", << >>, "none", Some(StateOf(row)))
       ELSE \E h \in latest_rows :
            /\ macro_variables_history' = macro_variables_history
            /\ current_state_cache' = Some(StateOf(h[1]))
            /\ result' = Outcome("get_current_state", << >>, "none", Some(StateOf(h[1])))
    /\ UNCHANGED << economic_releases, macro_events, now >>

\* MacroEvolutionEngine.get_current_state: the latest row by timestamp, kept
\* in self._current_state; fails on an empty history ("No macro variables
\* state found").  When the request of the query fails (outcome "fail": a
\* DatabaseError) the call raises "Failed to get current state"
\* (StoreUnavailable) and self._current_state is as it was.
get_current_state(outcome) ==
    /\ IF outcome = "fail"
       THEN /\ result' = Outcome("get_current_state", << >>, "StoreUnavailable", None)
            /\ UNCHANGED current_state_cache
       ELSE IF macro_variables_history = {}
       THEN /\ result' = Outcome("get_current_state", << >>, "NoInitialState", None)
            /\ UNCHANGED current_state_cache
       ELSE \E h \in latest_rows :
            /\ current_state_cache' = Some(StateOf(h[1]))
            /\ result' = Outcome("get_current_state", << >>, "none", Some(StateOf(h[1])))
    /\ UNCHANGED << vars_store, now >>

\* The body that apply_release_impact and apply_event_impact share, for the
\* event table `table`.  `timestamp` is None (then it is utcnow(), and the
\* clock has moved on when the call returns) or the caller's.  The call
\* makes up to three requests, and `outcome` names how they end: "ok", or the
\* first that does not: "lookup_fail" (the request of get_by_id fails),
\* "query_fail" (the request of the history query fails), "fail" (the request
\* of the insert fails, nothing is stored) and "nodata" (the row is stored and
\* the response carries no data: "Insert succeeded but no data returned").
\* Each failure reaches the caller as a MacroEvolutionError "Failed to ..."
\* (StoreUnavailable); after a failing lookup or query nothing has changed.
\* A request is made only if the call gets that far: an id the table lacks
\* ends the call before the history query, an empty history before the
\* insert.
apply_impact(op, table, cause_type, event_id, timestamp, outcome) ==
    LET event == get_by_id(table, event_id)
    IN  IF outcome = "lookup_fail"
        THEN /\ result' = Outcome(op, << event_id, timestamp >>, "StoreUnavailable", None)
             /\ UNCHANGED << macro_variables_history, current_state_cache, now >>
        ELSE IF IsNone(event)
        THEN /\ result' = Outcome(op, << event_id, timestamp >>, "UnknownEventReference", None)
             /\ UNCHANGED << macro_variables_history, current_state_cache, now >>
        ELSE IF outcome = "query_fail"
        THEN /\ result' = Outcome(op, << event_id, timestamp >>, "StoreUnavailable", None)
             /\ UNCHANGED << macro_variables_history, current_state_cache, now >>
        ELSE IF macro_variables_history = {}
        THEN /\ result' = Outcome(op, << event_id, timestamp >>, "NoInitialState", None)
             /\ UNCHANGED << macro_variables_history, current_state_cache, now >>
        ELSE \E h \in latest_rows :
             LET current == StateOf(h[1])
                 ts == IF IsNone(timestamp) THEN now ELSE Val(timestamp)
                 row == history_row(ts, new_values(current, Val(event)), cause_type, event_id)
             IN  /\ Cardinality(macro_variables_history) < MaxHistory
                 /\ IsNone(timestamp) => now < MaxNow
                 /\ current_state_cache' = Some(current)
                 /\ now' = IF IsNone(timestamp) THEN now + 1 ELSE now
                 /\ macro_variables_history' = insert(macro_variables_history, row, outcome)
                 /\ result' =
                        IF outcome = "ok" THEN Outcome(op, << event_id, timestamp >>, "none", Some(StateOf(row)))
                        ELSE Outcome(op, << event_id, timestamp >>, "StoreUnavailable", None)

apply_release_impact(release_id, timestamp, outcome) ==
    /\ apply_impact("apply_release_impact", economic_releases, "release",
                    release_id, timestamp, outcome)
    /\ UNCHANGED << economic_releases, macro_events >>

\* apply_event_impact recording its rows under cause_type 'release'.
apply_event_impact_as_release(event_id, timestamp, outcome) ==
    /\ apply_impact("apply_event_impact", macro_events, "release",
                    event_id, timestamp, outcome)
    /\ UNCHANGED << economic_releases, macro_events >>

apply_event_impact(event_id, timestamp, outcome) ==
    /\ apply_impact("apply_event_impact", macro_events, "event",
                    event_id, timestamp, outcome)
    /\ UNCHANGED << economic_releases, macro_events >>

\* The steps of the calls when several callers share the engine.  Each step
\* is one request to the store or the statements between two requests;
\* other callers run between the steps, and between the assignment of
\* self._current_state and the `return self._current_state` that reads it.

\* apply_release_impact / apply_event_impact without a timestamp, its first
\* request: the lookup of the event; the call ends with StoreUnavailable
\* when the request fails.
apply_impact_lookup(c, op, table, cause_type, event_id, outcome) ==
    LET event == get_by_id(table, event_id)
        call == [ NoCall EXCEPT !.op = op, !.cause_type = cause_type,
                                !.event_id = Some(event_id) ]
    IN  /\ in_flight[c].pc = "idle"
        /\ IF outcome = "fail"
           THEN /\ in_flight' = [in_flight EXCEPT ![c] =
                                    [ call EXCEPT !.pc = "done", !.err = "StoreUnavailable" ]]
                /\ result' = Outcome(op, << event_id, None >>, "StoreUnavailable", None)
           ELSE IF IsNone(event)
           THEN /\ in_flight' = [in_flight EXCEPT ![c] =
                                    [ call EXCEPT !.pc = "done",
                                                  !.err = "UnknownEventReference" ]]
                /\ result' = Outcome(op, << event_id, None >>, "UnknownEventReference", None)
           ELSE /\ in_flight' = [in_flight EXCEPT ![c] =
                                    [ call EXCEPT !.pc = "found", !.event = event ]]
                /\ UNCHANGED result
        /\ UNCHANGED << vars_store, current_state_cache, now >>

apply_release_impact_lookup(c, release_id, outcome) ==
    apply_impact_lookup(c, "apply_release_impact", economic_releases, "release", release_id,
                        outcome)

apply_event_impact_lookup(c, event_id, outcome) ==
    apply_impact_lookup(c, "apply_event_impact", macro_events, "event", event_id, outcome)

\* get_current_state, its request: the query for the latest history row, in
\* a call of get_current_state itself or inside an apply; the call ends with
\* StoreUnavailable when the request fails.
get_current_state_query(c, outcome) ==
    LET call == IF in_flight[c].pc = "idle"
                THEN [ NoCall EXCEPT !.op = "get_current_state" ]
                ELSE in_flight[c]
        args == IF IsNone(call.event_id) THEN << >> ELSE << Val(call.event_id), None >>
    IN  /\ in_flight[c].pc \in { "idle", "found" }
        /\ IF outcome = "fail"
           THEN /\ in_flight' = [in_flight EXCEPT ![c] =
                                    [ call EXCEPT !.pc = "done", !.err = "StoreUnavailable" ]]
                /\ result' = Outcome(call.op, args, "StoreUnavailable", None)
           ELSE /\ \E h \in latest_rows :
                       in_flight' = [in_flight EXCEPT ![c] =
                                        [ call EXCEPT !.pc = "queried",
                                                      !.answer = IF h = << >> THEN None
                                                                 ELSE Some(h[1]) ]]
                /\ UNCHANGED result
        /\ UNCHANGED << vars_store, current_state_cache, now >>

\* get_current_state after the answer: the error on an empty answer, else
\* the assignment of self._current_state.
get_current_state_assign(c) ==
    LET call == in_flight[c]
        args == IF IsNone(call.event_id) THEN << >> ELSE << Val(call.event_id), None >>
    IN  /\ call.pc = "queried"
        /\ IF IsNone(call.answer)
           THEN /\ in_flight' = [in_flight EXCEPT ![c] =
                                    [ call EXCEPT !.pc = "done", !.err = "NoInitialState" ]]
                /\ result' = Outcome(call.op, args, "NoInitialState", None)
                /\ UNCHANGED current_state_cache
           ELSE /\ current_state_cache' = Some(StateOf(Val(call.answer)))
                /\ in_flight' = [in_flight EXCEPT ![c] = [ call EXCEPT !.pc = "assigned" ]]
                /\ UNCHANGED result
        /\ UNCHANGED << vars_store, now >>

\* `return self._current_state`: the caller receives what the shared
\* attribute holds now, the state of its own answer or of another caller's.
\* A call of get_current_state ends here; an apply has its `current`.
get_current_state_return(c) ==
    LET call == in_flight[c]
    IN  /\ call.pc = "assigned"
        /\ IF call.op = "get_current_state"
           THEN /\ in_flight' = [in_flight EXCEPT ![c] =
                                    [ call EXCEPT !.pc = "done",
                                                  !.current = current_state_cache ]]
                /\ result' = Outcome("get_current_state", << >>, "none", current_state_cache)
           ELSE /\ in_flight' = [in_flight EXCEPT ![c] =
                                    [ call EXCEPT !.pc = "read",
                                                  !.current = current_state_cache ]]
                /\ UNCHANGED result
        /\ UNCHANGED << vars_store, current_state_cache, now >>

\* The apply after `current`: the sums and the floor (values of the locals)
\* and the timestamp, utcnow().
apply_impact_stamp(c) ==
    /\ in_flight[c].pc = "read"
    /\ now < MaxNow
    /\ now' = now + 1
    /\ in_flight' = [in_flight EXCEPT ![c] =
                        [ in_flight[c] EXCEPT !.pc = "stamped", !.timestamp = Some(now) ]]
    /\ UNCHANGED << vars_store, current_state_cache, result >>

\* The apply's last request: the insert of the row computed from the locals,
\* and the return (or the error) that follows its answer.
apply_impact_insert(c, outcome) ==
    /\ in_flight[c].pc = "stamped"
    /\ Cardinality(macro_variables_history) < MaxHistory
    /\ LET call == in_flight[c]
           event == Val(call.event)
           row == history_row(Val(call.timestamp), new_values(Val(call.current), event),
                              call.cause_type, event.id)
       IN  /\ macro_variables_history' = insert(macro_variables_history, row, outcome)
           /\ result' =
                  IF outcome = "ok"
                  THEN Outcome(call.op, << event.id, None >>, "none", Some(StateOf(row)))
                  ELSE Outcome(call.op, << event.id, None >>, "StoreUnavailable", None)
           /\ in_flight' = [in_flight EXCEPT ![c] =
                               [ call EXCEPT !.pc = "done",
                                             !.appended = IF outcome = "fail" THEN None
                                                          ELSE Some(row),
                                             !.err = IF outcome = "ok" THEN "none"
                                                     ELSE "StoreUnavailable" ]]
    /\ UNCHANGED << economic_releases, macro_events, current_state_cache, now >>

\* MacroEvolutionEngine.get_history: the answer of the query, or "Failed to
\* get history" (StoreUnavailable) when its request fails.
get_history(limit, ascending, outcome) ==
    /\ IF outcome = "fail"
       THEN result' = Outcome("get_history", << limit, ascending >>, "StoreUnavailable", None)
       ELSE \E h \in query_with_order(macro_variables_history, "timestamp", ascending, limit,
                                      FALSE) :
                result' = Outcome("get_history", << limit, ascending >>, "none", Some(h))
    /\ UNCHANGED << vars_store, current_state_cache, now >>

\* A decision list that tests Overheating before Boom.
regime_of_overheating_first(state) ==
    LET growth == state.growth
        inflation == state.inflation
    IN  IF growth > Dbl(30) /\ inflation > Dbl(30) THEN "Overheating"
        ELSE IF growth > Dbl(40) /\ inflation > Dbl(40) THEN "Boom"
        ELSE IF growth > Dbl(30) /\ inflation < Dbl(30) THEN "Goldilocks"
        ELSE IF growth < Dbl(10) /\ inflation < Dbl(20) THEN "Stagnation"
        ELSE IF growth < Dbl(10) /\ inflation > Dbl(30) THEN "Stagflation"
        ELSE IF growth < 0 THEN "Recession"
        ELSE "Expansion"

\* A decision list that tests Recession before Stagnation and Stagflation.
regime_of_recession_first(state) ==
    LET growth == state.growth
        inflation == state.inflation
    IN  IF growth > Dbl(40) /\ inflation > Dbl(40) THEN "Boom"
        ELSE IF growth > Dbl(30) /\ inflation < Dbl(30) THEN "Goldilocks"
        ELSE IF growth > Dbl(30) /\ inflation > Dbl(30) THEN "Overheating"
        ELSE IF growth < 0 THEN "Recession"
        ELSE IF growth < Dbl(10) /\ inflation < Dbl(20) THEN "Stagnation"
        ELSE IF growth < Dbl(10) /\ inflation > Dbl(30) THEN "Stagflation"
        ELSE "Expansion"

\* A decision list whose Stagflation rule starts at inflation 3.0.
regime_of_stagflation_from_three(state) ==
    LET growth == state.growth
        inflation == state.inflation
    IN  IF growth > Dbl(40) /\ inflation > Dbl(40) THEN "Boom"
        ELSE IF growth > Dbl(30) /\ inflation < Dbl(30) THEN "Goldilocks"
        ELSE IF growth > Dbl(30) /\ inflation > Dbl(30) THEN "Overheating"
        ELSE IF growth < Dbl(10) /\ inflation < Dbl(20) THEN "Stagnation"
        ELSE IF growth < Dbl(10) /\ inflation >= Dbl(30) THEN "Stagflation"
        ELSE IF growth < 0 THEN "Recession"
        ELSE "Expansion"

\* A decision list of the templates that tests Boom after Overheating.
template_regime_of_boom_last(macro_state) ==
    LET growth == macro_state.growth
        inflation == macro_state.inflation
    IN  IF growth > Dbl(30) /\ inflation < Dbl(30) THEN "Goldilocks"
        ELSE IF growth > Dbl(30) /\ inflation > Dbl(30) THEN "Overheating"
        ELSE IF growth > Dbl(40) /\ inflation > Dbl(40) THEN "Boom"
        ELSE IF growth < Dbl(10) /\ inflation < Dbl(20) THEN "Stagnation"
        ELSE IF growth < Dbl(10) /\ inflation > Dbl(30) THEN "Stagflation"
        ELSE IF growth < 0 THEN "Recession"
        ELSE "Expansion"

\* The regime of a state as MacroEvolutionEngine.describe_regime decides it
\* (the name that starts the returned description), thresholds as float literals.
regime_of(state) ==
    LET growth == state.growth
        inflation == state.inflation
    IN  IF growth > Dbl(40) /\ inflation > Dbl(40) THEN "Boom"
        ELSE IF growth > Dbl(30) /\ inflation < Dbl(30) THEN "Goldilocks"
        ELSE IF growth > Dbl(30) /\ inflation > Dbl(30) THEN "Overheating"
        ELSE IF growth < Dbl(10) /\ inflation < Dbl(20) THEN "Stagnation"
        ELSE IF growth < Dbl(10) /\ inflation > Dbl(30) THEN "Stagflation"
        ELSE IF growth < 0 THEN "Recession"
        ELSE "Expansion"

\* The regime of a state as prompts/narrative_templates.py _describe_regime
\* decides it (the name that starts the returned description).
template_regime_of(macro_state) ==
    LET growth == macro_state.growth
        inflation == macro_state.inflation
    IN  IF growth > Dbl(40) /\ inflation > Dbl(40) THEN "Boom"
        ELSE IF growth > Dbl(30) /\ inflation < Dbl(30) THEN "Goldilocks"
        ELSE IF growth > Dbl(30) /\ inflation > Dbl(30) THEN "Overheating"
        ELSE IF growth < Dbl(10) /\ inflation < Dbl(20) THEN "Stagnation"
        ELSE IF growth < Dbl(10) /\ inflation > Dbl(30) THEN "Stagflation"
        ELSE IF growth < 0 THEN "Recession"
        ELSE "Expansion"

\* MacroEvolutionEngine.describe_regime(state) with the state given: no read
\* of the store.
describe_regime_of(state) ==
    /\ result' = Outcome("describe_regime", << state >>, "none", Some(regime_of(state)))
    /\ UNCHANGED << vars_store, current_state_cache, now >>

\* narrative_templates._describe_regime(macro_state).
template_describe_regime(macro_state) ==
    /\ result' = Outcome("_describe_regime", << macro_state >>, "none",
                         Some(template_regime_of(macro_state)))
    /\ UNCHANGED << vars_store, current_state_cache, now >>

\* MacroEvolutionEngine.describe_regime() without a state: it reads the
\* current state first, and the errors of get_current_state are its own.
describe_regime(outcome) ==
    /\ IF outcome = "fail"
       THEN /\ result' = Outcome("describe_regime", << >>, "StoreUnavailable", None)
            /\ UNCHANGED current_state_cache
       ELSE IF macro_variables_history = {}
       THEN /\ result' = Outcome("describe_regime", << >>, "NoInitialState", None)
            /\ UNCHANGED current_state_cache
       ELSE \E h \in latest_rows :
            /\ current_state_cache' = Some(StateOf(h[1]))
            /\ result' = Outcome("describe_regime", << >>, "none", Some(regime_of(StateOf(h[1]))))
    /\ UNCHANGED << vars_store, now >>

\* ------------------------------------------------------- specifications
vars == << vars_store, vars_sched, current_state_cache, in_flight >>

\* The rows and the tables the checks start from.
ReleaseRow(i, date, happened, impact) ==
    [ id |-> ReleaseId(i), release_date |-> date, has_happened |-> happened,
      impact_growth |-> impact[1], impact_inflation |-> impact[2],
      impact_volatility |-> impact[3] ]

EventRow(i, date, happened, impact) ==
    [ id |-> EventId(i), event_date |-> date, has_happened |-> happened,
      impact_growth |-> impact[1], impact_inflation |-> impact[2],
      impact_volatility |-> impact[3] ]

ReleaseTables(Dates, Flags, Impacts) ==
    UNION { { { ReleaseRow(i, f[i][1], f[i][2], f[i][3]) : i \in 1..n } :
                f \in [1..n -> Dates \X Flags \X Impacts] } : n \in 0..MaxRows }

EventTables(Dates, Flags, Impacts) ==
    UNION { { { EventRow(i, f[i][1], f[i][2], f[i][3]) : i \in 1..n } :
                f \in [1..n -> Dates \X Flags \X Impacts] } : n \in 0..MaxRows }

\* Ids the callers pass: those of the rows a table may hold, and one more
\* that no row has.
RowNumbers == 1..(MaxRows + 1)

\* The scheduler, constructed from what its data provider returned: the
\* future events of the store, in any order (DataProvider returns them
\* sorted: get_all_future_events).
SchedInit ==
    /\ economic_releases \in ReleaseTables(0..MaxDate, BOOLEAN, { << 0, 0, 0 >> })
    /\ macro_events \in EventTables(0..MaxDate, BOOLEAN, { << 0, 0, 0 >> })
    /\ macro_variables_history = {}
    /\ current_state_cache = None
    /\ in_flight = NoCalls
    /\ provided \in UNION { SeqsOf(Range(g)) : g \in get_all_future_events }
    /\ events = load_events(provided)
    /\ current_index = 0
    /\ simulation_start_time = None
    /\ real_start_time = None
    /\ now \in 0..MaxStartDelay
    /\ pc = "idle"
    /\ wait_time = 0
    /\ chunked = FALSE
    /\ pending_event = None
    /\ delivered = << >>
    /\ result = Outcome("__init__", << >>, "none", None)

vars_cursor == << provided, events, current_index, simulation_start_time,
                  real_start_time, pc, wait_time, chunked, pending_event, delivered >>

SchedNext ==
    \/ start /\ UNCHANGED << current_state_cache, in_flight >>
    \/ get_next_event /\ UNCHANGED << current_state_cache, in_flight >>
    \/ skip_to_next_event /\ UNCHANGED << current_state_cache, in_flight >>
    \/ wait_until_next_event /\ UNCHANGED << current_state_cache, in_flight >>
    \/ sleep /\ UNCHANGED << current_state_cache, in_flight >>
    \/ interrupt /\ UNCHANGED << current_state_cache, in_flight >>
    \/ get_progress /\ UNCHANGED << current_state_cache, in_flight >>
    \/ \E i \in RowNumbers, outcome \in { "ok", "fail" } :
           mark_release_as_happened(ReleaseId(i), outcome)
               /\ UNCHANGED << vars_cursor, now, current_state_cache, in_flight >>
    \/ \E i \in RowNumbers, outcome \in { "ok", "fail" } :
           mark_event_as_happened(EventId(i), outcome)
               /\ UNCHANGED << vars_cursor, now, current_state_cache, in_flight >>
    \/ tick /\ UNCHANGED << vars_store, vars_cursor, current_state_cache, in_flight >>

SchedSpec == SchedInit /\ [][SchedNext]_vars

\* The engine over a store whose history is empty or holds the initial state.
ReleaseImpacts == { << 5, -2, 30 >> }
EventImpacts == { << -10, 5, -50 >> }
SeedStates == { << 20, 20, 100 >>, << 14, 16, 10 >> }
SeedTimestamp == MaxNow - 3
Timestamps == { SeedTimestamp - 1, SeedTimestamp + 1 }

FullTables(tables) == { t \in tables : Cardinality(t) = MaxRows }

SeedRow(seed) ==
    [ id |-> 1, timestamp |-> SeedTimestamp, growth |-> Dbl(seed[1]),
      inflation |-> Dbl(seed[2]), volatility |-> Dbl(seed[3]),
      cause_type |-> "initial", cause_id |-> None ]

EngineInit ==
    /\ economic_releases \in FullTables(ReleaseTables({ 0 }, { FALSE }, ReleaseImpacts))
    /\ macro_events \in FullTables(EventTables({ 0 }, { FALSE }, EventImpacts))
    /\ macro_variables_history \in { {} } \cup { { SeedRow(seed) } : seed \in SeedStates }
    /\ current_state_cache = None
    /\ in_flight = NoCalls
    /\ provided = << >>
    /\ events = << >>
    /\ current_index = 0
    /\ simulation_start_time = None
    /\ real_start_time = None
    /\ now = SeedTimestamp + 1
    /\ pc = "idle"
    /\ wait_time = 0
    /\ chunked = FALSE
    /\ pending_event = None
    /\ delivered = << >>
    /\ result = Outcome("__init__", << >>, "none", None)

EngineNext ==
    \/ \E outcome \in { "ok", "fail" } :
           get_current_state(outcome) /\ UNCHANGED << vars_cursor, in_flight >>
    \/ \E i \in RowNumbers, ts \in { None } \cup { Some(t) : t \in Timestamps },
          outcome \in { "ok", "lookup_fail", "query_fail", "fail", "nodata" } :
           apply_release_impact(ReleaseId(i), ts, outcome) /\ UNCHANGED << vars_cursor, in_flight >>
    \/ \E i \in RowNumbers, ts \in { None } \cup { Some(t) : t \in Timestamps },
          outcome \in { "ok", "lookup_fail", "query_fail", "fail", "nodata" } :
           apply_event_impact(EventId(i), ts, outcome) /\ UNCHANGED << vars_cursor, in_flight >>
    \/ \E limit \in 0..MaxLimit, ascending \in BOOLEAN, outcome \in { "ok", "fail" } :
           get_history(limit, ascending, outcome) /\ UNCHANGED << vars_cursor, in_flight >>
    \/ \E outcome \in { "ok", "fail" } :
           describe_regime(outcome) /\ UNCHANGED << vars_cursor, in_flight >>
    \/ \E i \in RowNumbers, outcome \in { "ok", "fail" } :
           mark_release_as_happened(ReleaseId(i), outcome)
               /\ UNCHANGED << vars_cursor, now, current_state_cache, in_flight >>
    \/ \E i \in RowNumbers, outcome \in { "ok", "fail" } :
           mark_event_as_happened(EventId(i), outcome)
               /\ UNCHANGED << vars_cursor, now, current_state_cache, in_flight >>

EngineSpec == EngineInit /\ [][EngineNext]_vars

\* Several callers, each in one call of get_current_state,
\* apply_release_impact or apply_event_impact of the same engine, their
\* steps interleaved.
RaceInit == EngineInit

RaceNext ==
    \/ \E c \in Callers, i \in RowNumbers, outcome \in { "ok", "fail" } :
           apply_release_impact_lookup(c, ReleaseId(i), outcome) /\ UNCHANGED vars_cursor
    \/ \E c \in Callers, i \in RowNumbers, outcome \in { "ok", "fail" } :
           apply_event_impact_lookup(c, EventId(i), outcome) /\ UNCHANGED vars_cursor
    \/ \E c \in Callers, outcome \in { "ok", "fail" } :
           get_current_state_query(c, outcome) /\ UNCHANGED vars_cursor
    \/ \E c \in Callers : get_current_state_assign(c) /\ UNCHANGED vars_cursor
    \/ \E c \in Callers : get_current_state_return(c) /\ UNCHANGED vars_cursor
    \/ \E c \in Callers : apply_impact_stamp(c) /\ UNCHANGED vars_cursor
    \/ \E c \in Callers, outcome \in { "ok", "fail", "nodata" } :
           apply_impact_insert(c, outcome) /\ UNCHANGED vars_cursor

RaceSpec == RaceInit /\ [][RaceNext]_vars

\* The scheduler constructed from the answer of its data provider, over
\* tables of up to TieRows future rows that share their dates.
TieRows == 2
TieDates == { 0, 1 }

TieInit ==
    /\ economic_releases \in
           UNION { { { ReleaseRow(i, f[i], FALSE, << 0, 0, 0 >>) : i \in 1..n } :
                       f \in [1..n -> TieDates] } : n \in 0..TieRows }
    /\ macro_events \in
           UNION { { { EventRow(i, f[i], FALSE, << 0, 0, 0 >>) : i \in 1..n } :
                       f \in [1..n -> TieDates] } : n \in 0..TieRows }
    /\ macro_variables_history = {}
    /\ current_state_cache = None
    /\ in_flight = NoCalls
    /\ provided \in get_all_future_events
    /\ events = load_events(provided)
    /\ current_index = 0
    /\ simulation_start_time = None
    /\ real_start_time = None
    /\ now = 0
    /\ pc = "idle"
    /\ wait_time = 0
    /\ chunked = FALSE
    /\ pending_event = None
    /\ delivered = << >>
    /\ result = Outcome("__init__", << >>, "none", None)

TieNext ==
    \/ start /\ UNCHANGED << current_state_cache, in_flight >>
    \/ get_next_event /\ UNCHANGED << current_state_cache, in_flight >>
    \/ skip_to_next_event /\ UNCHANGED << current_state_cache, in_flight >>
    \/ wait_until_next_event /\ UNCHANGED << current_state_cache, in_flight >>
    \/ sleep /\ UNCHANGED << current_state_cache, in_flight >>
    \/ interrupt /\ UNCHANGED << current_state_cache, in_flight >>
    \/ tick /\ UNCHANGED << vars_store, vars_cursor, current_state_cache, in_flight >>

TieSpec == TieInit /\ [][TieNext]_vars

\* The data provider and the direct calls of DatabaseManager over the
\* store: releases of up to TieRows rows and macro events of up to MaxRows
\* rows, happened or not, that share their dates.
ProviderReleaseTables ==
    UNION { { { ReleaseRow(i, f[i][1], f[i][2], << 0, 0, 0 >>) : i \in 1..n } :
                f \in [1..n -> TieDates \X BOOLEAN] } : n \in 0..TieRows }

ProviderEventTables ==
    UNION { { { EventRow(i, f[i][1], f[i][2], << 0, 0, 0 >>) : i \in 1..n } :
                f \in [1..n -> TieDates \X BOOLEAN] } : n \in 0..MaxRows }

\* The initial state and the history rows the direct calls insert.
ProviderHistoryRows == { SeedRow(<< 20, 20, 100 >>) }

\* The columns and the values the direct updates are called with, and the
\* history tables of the model: empty, or an inserted row with any of these
\* columns updated (each column takes one value, so two updates reach every
\* such row).
ReleaseColumns ==
    { [ has_happened |-> b ] : b \in BOOLEAN } \cup { [ release_date |-> d ] : d \in TieDates }
EventColumns ==
    { [ has_happened |-> b ] : b \in BOOLEAN } \cup { [ event_date |-> d ] : d \in TieDates }
HistoryColumns ==
    { [ growth |-> Dbl(99) ], [ timestamp |-> SeedTimestamp + 2 ] }
HistoryFilters ==
    { [ cause_type |-> "initial" ], [ cause_type |-> "release" ] }

ProviderHistoryTables ==
    { {} } \cup { { r } : r \in ProviderHistoryRows }
           \cup { { Merged(r, a) } : r \in ProviderHistoryRows, a \in HistoryColumns }
           \cup { { Merged(Merged(r, a), b) } :
                      r \in ProviderHistoryRows, a \in HistoryColumns, b \in HistoryColumns }

\* What a database function returns: nothing, or a number (of rows).
RpcReturns == { None, Some(TieRows) }

\* DatabaseManager.execute_rpc(function_name, params): the function runs in
\* the database and its code is not in the repository; after a call that
\* succeeds each table holds the rows it held or any other rows, and the
\* call returns what the function returned.  A request that fails (no such
\* function, an error in it) raises DatabaseError.
execute_rpc(outcome, ret) ==
    /\ pc = "idle"
    /\ IF outcome = "fail"
       THEN /\ result' = Outcome("execute_rpc", << >>, "DatabaseError", None)
            /\ UNCHANGED vars_store
       ELSE /\ economic_releases' \in ProviderReleaseTables \cup { economic_releases }
            /\ macro_events' \in ProviderEventTables \cup { macro_events }
            /\ macro_variables_history' \in
                   ProviderHistoryTables \cup { macro_variables_history }
            /\ result' = Outcome("execute_rpc", << >>, "none", ret)

ProviderInit ==
    /\ economic_releases \in ProviderReleaseTables
    /\ macro_events \in ProviderEventTables
    /\ macro_variables_history \in ProviderHistoryTables
    /\ current_state_cache = None
    /\ in_flight = NoCalls
    /\ provided = << >>
    /\ events = << >>
    /\ current_index = 0
    /\ simulation_start_time = None
    /\ real_start_time = None
    /\ now = 0
    /\ pc = "idle"
    /\ wait_time = 0
    /\ chunked = FALSE
    /\ pending_event = None
    /\ delivered = << >>
    /\ result = Outcome("__init__", << >>, "none", None)

ProviderNext ==
    \/ \E outcome \in { "ok", "fail" } :
           data_provider_get_next_event(outcome)
               /\ UNCHANGED << vars_cursor, now, current_state_cache, in_flight >>
    \/ \E outcome \in { "ok", "fail" } :
           data_provider_get_all_future_events(outcome)
               /\ UNCHANGED << vars_cursor, now, current_state_cache, in_flight >>
    \/ \E i \in 1..TieRows, outcome \in { "ok", "fail" } :
           mark_release_as_happened(ReleaseId(i), outcome)
               /\ UNCHANGED << vars_cursor, now, current_state_cache, in_flight >>
    \/ \E i \in 1..TieRows, outcome \in { "ok", "fail" } :
           mark_event_as_happened(EventId(i), outcome)
               /\ UNCHANGED << vars_cursor, now, current_state_cache, in_flight >>
    \/ \E d \in TieDates, b \in BOOLEAN, outcome \in { "ok", "fail", "nodata" } :
           /\ Cardinality(economic_releases) < TieRows
           /\ database_insert("economic_releases",
                              ReleaseRow(Cardinality(economic_releases) + 1, d, b, << 0, 0, 0 >>),
                              outcome)
               /\ UNCHANGED << vars_cursor, now, current_state_cache, in_flight >>
    \/ \E d \in TieDates, b \in BOOLEAN, outcome \in { "ok", "fail", "nodata" } :
           /\ Cardinality(macro_events) < MaxRows
           /\ database_insert("macro_events",
                              EventRow(Cardinality(macro_events) + 1, d, b, << 0, 0, 0 >>),
                              outcome)
               /\ UNCHANGED << vars_cursor, now, current_state_cache, in_flight >>
    \/ \E row \in ProviderHistoryRows, outcome \in { "ok", "fail", "nodata" } :
           /\ row.id = Cardinality(macro_variables_history) + 1
           /\ database_insert("macro_variables_history", row, outcome)
               /\ UNCHANGED << vars_cursor, now, current_state_cache, in_flight >>
    \/ \E i \in 1..(TieRows + 1), data \in ReleaseColumns, outcome \in { "ok", "fail" } :
           database_update("economic_releases", ReleaseId(i), data, outcome)
               /\ UNCHANGED << vars_cursor, now, current_state_cache, in_flight >>
    \/ \E i \in 1..(MaxRows + 1), data \in EventColumns, outcome \in { "ok", "fail" } :
           database_update("macro_events", EventId(i), data, outcome)
               /\ UNCHANGED << vars_cursor, now, current_state_cache, in_flight >>
    \/ \E i \in 1..(MaxRows + 1), data \in HistoryColumns, outcome \in { "ok", "fail" } :
           database_update("macro_variables_history", i, data, outcome)
               /\ UNCHANGED << vars_cursor, now, current_state_cache, in_flight >>
    \/ \E data \in ReleaseColumns, filters \in ReleaseColumns, outcome \in { "ok", "fail" } :
           database_update_where("economic_releases", data, filters, outcome)
               /\ UNCHANGED << vars_cursor, now, current_state_cache, in_flight >>
    \/ \E data \in EventColumns, filters \in EventColumns, outcome \in { "ok", "fail" } :
           database_update_where("macro_events", data, filters, outcome)
               /\ UNCHANGED << vars_cursor, now, current_state_cache, in_flight >>
    \/ \E data \in HistoryColumns, filters \in HistoryFilters, outcome \in { "ok", "fail" } :
           database_update_where("macro_variables_history", data, filters, outcome)
               /\ UNCHANGED << vars_cursor, now, current_state_cache, in_flight >>
    \/ \E outcome \in { "ok", "fail" }, ret \in RpcReturns :
           execute_rpc(outcome, ret)
               /\ UNCHANGED << vars_cursor, now, current_state_cache, in_flight >>

ProviderSpec == ProviderInit /\ [][ProviderNext]_vars

\* A run of the simulation: the scheduler is constructed and started once,
\* then a loop calls skip_to_next_event or wait_until_next_event until a call
\* returns None.  The loop is sequential code and every sleep ends, so a
\* step that can be taken is taken.
Running ==
    ~(result.op \in { "skip_to_next_event", "wait_until_next_event" }
      /\ result.err = "none" /\ IsNone(result.ret))

RunInit == TieInit

RunNext ==
    \/ (result.op = "__init__" /\ start) /\ UNCHANGED << current_state_cache, in_flight >>
    \/ (~IsNone(real_start_time) /\ Running /\ skip_to_next_event)
           /\ UNCHANGED << current_state_cache, in_flight >>
    \/ (~IsNone(real_start_time) /\ Running /\ wait_until_next_event)
           /\ UNCHANGED << current_state_cache, in_flight >>
    \/ sleep /\ UNCHANGED << current_state_cache, in_flight >>

RunSpec == RunInit /\ [][RunNext]_vars /\ WF_vars(RunNext)

\* The scheduler over a timeline of up to MaxTimeline releases, one per day.
MaxTimeline == 10

TimelineOf(n) == [ i \in 1..n |-> << "release", ReleaseRow(i, i, FALSE, << 0, 0, 0 >>) >> ]

ProgressInit ==
    /\ \E n \in 0..MaxTimeline :
           /\ provided = TimelineOf(n)
           /\ economic_releases = { TimelineOf(n)[i][2] : i \in 1..n }
    /\ macro_events = {}
    /\ macro_variables_history = {}
    /\ current_state_cache = None
    /\ in_flight = NoCalls
    /\ events = load_events(provided)
    /\ current_index = 0
    /\ simulation_start_time = None
    /\ real_start_time = None
    /\ now = 0
    /\ pc = "idle"
    /\ wait_time = 0
    /\ chunked = FALSE
    /\ pending_event = None
    /\ delivered = << >>
    /\ result = Outcome("__init__", << >>, "none", None)

ProgressNext ==
    \/ start /\ UNCHANGED << current_state_cache, in_flight >>
    \/ get_next_event /\ UNCHANGED << current_state_cache, in_flight >>
    \/ skip_to_next_event /\ UNCHANGED << current_state_cache, in_flight >>
    \/ get_progress /\ UNCHANGED << current_state_cache, in_flight >>

ProgressSpec == ProgressInit /\ [][ProgressNext]_vars

\* The two regime classifiers applied to states around every threshold.
GrowthValues == { -20, -5, 0, 5, 10, 25, 30, 35, 40, 45 }
InflationValues == { 10, 18, 20, 25, 30, 35, 40, 45 }
VolatilityValues == { 0, 130 }
RegimeStates ==
    [ growth : { Dbl(g) : g \in GrowthValues } \cup { float_add(Dbl(14), Dbl(-4)) },
      inflation : { Dbl(i) : i \in InflationValues },
      volatility : { Dbl(v) : v \in VolatilityValues } ]

ClassifyInit ==
    /\ economic_releases = {}
    /\ macro_events = {}
    /\ macro_variables_history = {}
    /\ current_state_cache = None
    /\ in_flight = NoCalls
    /\ provided = << >>
    /\ events = << >>
    /\ current_index = 0
    /\ simulation_start_time = None
    /\ real_start_time = None
    /\ now = 0
    /\ pc = "idle"
    /\ wait_time = 0
    /\ chunked = FALSE
    /\ pending_event = None
    /\ delivered = << >>
    /\ result = Outcome("__init__", << >>, "none", None)

ClassifyNext ==
    \/ \E state \in RegimeStates : describe_regime_of(state) /\ UNCHANGED << vars_cursor, in_flight >>
    \/ \E state \in RegimeStates : template_describe_regime(state) /\ UNCHANGED << vars_cursor, in_flight >>

ClassifySpec == ClassifyInit /\ [][ClassifyNext]_vars

\* ------------------------------------------------- claims: the scheduler
SortedByDate(s) == \A i \in 1..(Len(s) - 1) : s[i].sim_datetime <= s[i + 1].sim_datetime

Delivering == { "skip_to_next_event", "wait_until_next_event" }
Peeking == { "get_next_event", "skip_to_next_event", "wait_until_next_event" }
ReturnedEvent(r) == r.op \in Delivering /\ r.err = "none" /\ ~IsNone(r.ret)
Unstarted == IsNone(simulation_start_time) /\ IsNone(real_start_time)
Exhausted == current_index >= Len(events)

\* C1: whatever the order in which the provider returned the future events,
\* the timeline is sorted ascending by sim_datetime, the events that
\* skip_to_next_event and wait_until_next_event return come in non-decreasing
\* sim_datetime order, and every call that returns an event returns the
\* timeline entry at the cursor and moves the cursor by exactly 1.
C1_MonotonicOrdering ==
    /\ [](SortedByDate(events) /\ SortedByDate(delivered))
    /\ [][ ReturnedEvent(result') =>
             /\ current_index' = current_index + 1
             /\ Val(result'.ret).sim_datetime = events[current_index + 1].sim_datetime
             /\ Val(result'.ret).data = events[current_index + 1].data
             /\ delivered' = Append(delivered, Val(result'.ret)) ]_vars

\* Both events of an unsorted answer of the provider have been returned, the
\* second by wait_until_next_event, the later one last.
C1_Witness ==
    /\ Len(provided) = 2
    /\ DateOf(provided[1][1], provided[1][2]) > DateOf(provided[2][1], provided[2][2])
    /\ Len(delivered) = 2
    /\ delivered[1].sim_datetime < delivered[2].sim_datetime
    /\ result.op = "wait_until_next_event"
    /\ ReturnedEvent(result)

\* C2: once current_index = len(events), the timeline stays exhausted: every
\* later get_next_event, skip_to_next_event and wait_until_next_event returns
\* None without an error, and no step changes current_index.
C2_ExhaustionAbsorbing ==
    [][ Exhausted =>
          /\ Exhausted'
          /\ current_index' = current_index
          /\ result'.op \in Peeking => (result'.err = "none" /\ IsNone(result'.ret)) ]_vars

\* A two-event timeline is exhausted and wait_until_next_event has just
\* returned None.
C2_Witness ==
    /\ Len(events) = 2
    /\ Exhausted
    /\ result = Outcome("wait_until_next_event", << >>, "none", None)

\* C3: current_index starts at 0, stays within 0..len(events), never
\* decreases, changes only in skip_to_next_event and wait_until_next_event,
\* and start, get_next_event and get_progress leave it unchanged.
C3_CursorRange ==
    /\ current_index = 0
    /\ [](0 <= current_index /\ current_index <= Len(events))
    /\ [][ /\ current_index' >= current_index
           /\ current_index' # current_index => result'.op \in Delivering
           /\ result'.op \in { "start", "get_next_event", "get_progress" }
                  => current_index' = current_index ]_vars

\* start() has succeeded on a scheduler whose cursor had moved: the cursor
\* is where it was.
C3_Witness ==
    /\ current_index = 1
    /\ Len(events) = 2
    /\ result = Outcome("start", << >>, "none", None)

\* C4: both anchors are unset until the first start(); the first start()
\* sets simulation_start_time to the sim_datetime of timeline[0] and
\* real_start_time to the current instant; a start() on a started scheduler
\* is rejected with an error and leaves both anchors unchanged.
C4_StartOnlyOnce ==
    /\ Unstarted
    /\ [][ /\ (Unstarted /\ ~Unstarted') =>
                /\ result' = Outcome("start", << >>, "none", None)
                /\ simulation_start_time' = Some(events[1].sim_datetime)
                /\ real_start_time' = Some(now)
           /\ (~Unstarted /\ result'.op = "start") =>
                /\ result'.err # "none"
                /\ UNCHANGED << simulation_start_time, real_start_time >> ]_vars

\* C5: a scheduler constructed from zero future events exists, and every
\* start() on it fails with the EmptyTimeline error and leaves it unstarted
\* with current_index 0.
C5_EmptyTimelineStart ==
    /\ [](events = << >> => (Unstarted /\ current_index = 0))
    /\ [][ (events = << >> /\ result'.op = "start") =>
             /\ result'.err = "EmptyTimeline"
             /\ Unstarted'
             /\ current_index' = 0 ]_vars

\* start() has failed with EmptyTimeline on a scheduler built from a store
\* whose only rows have happened.
C5_Witness ==
    /\ events = << >>
    /\ economic_releases # {}
    /\ result = Outcome("start", << >>, "EmptyTimeline", None)
    /\ Unstarted
    /\ current_index = 0

\* C6 as claimed: before start(), get_next_event and wait_until_next_event
\* signal NotStarted for every timeline, the empty one included, and leave
\* current_index and both anchors unchanged.
C6_NotStartedAlways ==
    [][ (Unstarted /\ result'.op \in { "get_next_event", "wait_until_next_event" }) =>
          /\ result'.err = "NotStarted"
          /\ UNCHANGED << current_index, simulation_start_time, real_start_time >> ]_vars

\* C6 as amended: before start(), get_next_event and wait_until_next_event
\* signal NotStarted for every timeline that is not empty, and return None
\* without an error for the empty timeline; either way they leave
\* current_index and both anchors unchanged.
C6_NotStartedUnlessEmpty ==
    [][ (Unstarted /\ result'.op \in { "get_next_event", "wait_until_next_event" }) =>
          /\ IF events # << >>
             THEN result'.err = "NotStarted"
             ELSE result'.err = "none" /\ IsNone(result'.ret)
          /\ UNCHANGED << current_index, simulation_start_time, real_start_time >> ]_vars

\* wait_until_next_event has raised NotStarted on an unstarted scheduler
\* that holds events.
C6_Witness ==
    /\ Unstarted
    /\ events # << >>
    /\ current_index = 0
    /\ result = Outcome("wait_until_next_event", << >>, "NotStarted", None)

\* --------------------------------------------------- claims: the engine
ApplyOps == { "apply_release_impact", "apply_event_impact" }
ReadOps == { "get_current_state", "get_history", "describe_regime" }
Applied(r) == r.op \in ApplyOps /\ r.err = "none"

\* The table an apply reads its event from, and the cause_type it records.
TableOf(op) == IF op = "apply_release_impact" THEN economic_releases ELSE macro_events
CauseTypeOf(op) == IF op = "apply_release_impact" THEN "release" ELSE "event"

\* The rows of the greatest timestamp: the candidates for the current state.
Latest(rows) == { r \in rows : \A o \in rows : o.timestamp <= r.timestamp }

Floor0(v) == IF v < 0 THEN 0 ELSE v

Appended == macro_variables_history' \ macro_variables_history

\* C7: every history entry the two apply operations append has volatility
\* >= 0; the stored volatility is 0 when the current volatility plus the
\* event's impact_volatility is negative and the sum otherwise, and a
\* successful apply returns the stored volatility.
C7_VolatilityFloor ==
    /\ [](\A r \in macro_variables_history :
              r.cause_type \in { "release", "event" } => r.volatility >= 0)
    /\ [][ result'.op \in ApplyOps =>
             \A b \in Appended :
                 /\ \E p \in Latest(macro_variables_history), e \in TableOf(result'.op) :
                        /\ e.id = result'.args[1]
                        /\ b.volatility =
                               IF float_add(p.volatility, Dbl(e.impact_volatility)) < 0 THEN 0
                               ELSE float_add(p.volatility, Dbl(e.impact_volatility))
                 /\ result'.err = "none" => Val(result'.ret).volatility = b.volatility ]_vars

\* An event impact of -5.0 on a current volatility of 1.0 has been applied:
\* the entry stored and the state returned have volatility 0.
C7_Witness ==
    /\ result.op = "apply_event_impact"
    /\ result.err = "none"
    /\ Val(result.ret).volatility = 0
    /\ \E p, b \in macro_variables_history, e \in macro_events :
           /\ p.cause_type = "initial"
           /\ b.cause_type = "event"
           /\ b.cause_id = e.id
           /\ float_add(p.volatility, Dbl(e.impact_volatility)) < 0
           /\ b.volatility = 0
           /\ Cardinality(macro_variables_history) = 2

\* C8: a successful apply of an existing release or macro event appends
\* exactly one history entry: growth and inflation are the current values
\* plus the event's impacts, volatility is max(0, current + impact), cause_id
\* is the event's id, cause_type is 'release' for apply_release_impact and
\* 'event' for apply_event_impact; the call returns those three values.
\* The sums are the floats' (the double nearest the sum, which to the tenth
\* is the sum of the tenths: 1.4 + -0.4 is 0.9999999999999999).
C8_ApplyAppendsSums ==
    [][ Applied(result') =>
          \E b \in Appended, p \in Latest(macro_variables_history),
             e \in TableOf(result'.op) :
              /\ macro_variables_history' = macro_variables_history \cup { b }
              /\ e.id = result'.args[1]
              /\ b.growth = float_add(p.growth, Dbl(e.impact_growth))
              /\ b.inflation = float_add(p.inflation, Dbl(e.impact_inflation))
              /\ b.volatility = Floor0(float_add(p.volatility, Dbl(e.impact_volatility)))
              /\ TenthsOf(b.growth) = TenthsOf(p.growth) + e.impact_growth
              /\ TenthsOf(b.inflation) = TenthsOf(p.inflation) + e.impact_inflation
              /\ b.cause_id = e.id
              /\ b.cause_type = CauseTypeOf(result'.op)
              /\ Val(result'.ret).growth = b.growth
              /\ Val(result'.ret).inflation = b.inflation
              /\ Val(result'.ret).volatility = b.volatility ]_vars

\* The release of impacts (0.5, -0.2, 3.0) has been applied to the initial
\* state (2.0, 2.0, 10.0): the call returned (2.5, 1.8, 13.0) and the history
\* holds that entry with cause_type 'release'.
C8_Witness ==
    /\ result.op = "apply_release_impact"
    /\ result.err = "none"
    /\ Val(result.ret).growth = Dbl(25)
    /\ Val(result.ret).inflation = Dbl(18)
    /\ Val(result.ret).volatility = Dbl(130)
    /\ Cardinality(macro_variables_history) = 2
    /\ \E p, b \in macro_variables_history :
           /\ p.cause_type = "initial"
           /\ << p.growth, p.inflation, p.volatility >> = << Dbl(20), Dbl(20), Dbl(100) >>
           /\ b.cause_type = "release"
           /\ b.cause_id = ReleaseId(1)
           /\ << b.growth, b.inflation, b.volatility >> = << Dbl(25), Dbl(18), Dbl(130) >>

\* The timestamp an apply call stores: the caller's, or the current instant.
TimestampOf(r, instant) == IF IsNone(r.args[2]) THEN instant ELSE Val(r.args[2])

\* C9: two successful applies of the same event id in succession, each with
\* a timestamp later than every entry present, append two entries, and the
\* resulting current state is the state before the first apply plus twice
\* the event's growth and inflation impacts; no engine operation changes
\* the releases or the macro events (has_happened included), and an apply
\* succeeds whatever the flag.
C9_NotIdempotent ==
    /\ [][ result'.op \in ApplyOps \cup ReadOps =>
             UNCHANGED << economic_releases, macro_events >> ]_vars
    /\ [][ \A a \in macro_variables_history :
             ( /\ Applied(result) /\ Applied(result')
               /\ result'.op = result.op
               /\ result'.args[1] = result.args[1]
               /\ a.id = Cardinality(macro_variables_history)
               /\ a.cause_id = result.args[1]
               /\ \A o \in macro_variables_history \ { a } : o.timestamp < a.timestamp
               /\ a.timestamp < TimestampOf(result', now) )
             => \E b \in Appended, e \in TableOf(result'.op),
                   p \in Latest(macro_variables_history \ { a }) :
                    /\ Cardinality(macro_variables_history') =
                           Cardinality(macro_variables_history) + 1
                    /\ e.id = result'.args[1]
                    /\ b.cause_id = e.id
                    /\ Latest(macro_variables_history') = { b }
                    /\ b.growth = float_add(float_add(p.growth, Dbl(e.impact_growth)),
                                            Dbl(e.impact_growth))
                    /\ b.inflation = float_add(float_add(p.inflation, Dbl(e.impact_inflation)),
                                               Dbl(e.impact_inflation))
                    /\ TenthsOf(b.growth) = TenthsOf(p.growth) + 2 * e.impact_growth
                    /\ TenthsOf(b.inflation) = TenthsOf(p.inflation) + 2 * e.impact_inflation ]_vars

\* The macro event, already marked as happened, has been applied twice in
\* succession at increasing timestamps: the history holds two entries of
\* that cause, and the latest carries the growth and inflation impacts twice.
C9_Witness ==
    /\ Applied(result)
    /\ result.op = "apply_event_impact"
    /\ \E e \in macro_events, p, a, b \in macro_variables_history :
           /\ e.id = result.args[1]
           /\ e.has_happened
           /\ e.impact_growth # 0
           /\ p.cause_type = "initial"
           /\ a.cause_id = e.id
           /\ b.cause_id = e.id
           /\ p.timestamp < a.timestamp
           /\ a.timestamp < b.timestamp
           /\ Latest(macro_variables_history) = { b }
           /\ b.growth = p.growth + 2 * Dbl(e.impact_growth)
           /\ b.inflation = p.inflation + 2 * Dbl(e.impact_inflation)
           /\ Val(result.ret).growth = b.growth

\* C10: no engine operation changes or deletes an existing history entry; a
\* successful apply makes the history one entry longer; get_current_state,
\* get_history and describe_regime leave the history unchanged.
C10_AppendOnly ==
    [][ /\ result'.op \in ApplyOps \cup ReadOps =>
              macro_variables_history \subseteq macro_variables_history'
        /\ Applied(result') =>
              Cardinality(macro_variables_history') =
                  Cardinality(macro_variables_history) + 1
        /\ result'.op \in ReadOps =>
              macro_variables_history' = macro_variables_history ]_vars

\* get_history has been read from a history of three entries, two of which
\* carry the same timestamp.
C10_Witness ==
    /\ result.op = "get_history"
    /\ result.err = "none"
    /\ Cardinality(macro_variables_history) = 3
    /\ \E a, b \in macro_variables_history : a # b /\ a.timestamp = b.timestamp

\* The event table of an apply holds a row of the id the call names.
KnownEvent(r) == \E e \in TableOf(r.op) : e.id = r.args[1]

C13_NoPartialFailure ==
    [][ result'.op \in ApplyOps =>
          IF result'.err # "none"
          THEN macro_variables_history' = macro_variables_history
          ELSE \E b \in Appended :
                   /\ macro_variables_history' = macro_variables_history \cup { b }
                   /\ StateOf(b) = Val(result'.ret) ]_vars

\* C14: get_history(limit, ascending) with limit >= 1, when its query is
\* answered, returns the min(limit, n) entries of the greatest timestamps, listed in ascending
\* timestamp order when ascending is asked for and in descending order
\* otherwise, and leaves the history unchanged.
C14_HistoryMostRecent ==
    [][ (result'.op = "get_history" /\ result'.err = "none" /\ result'.args[1] >= 1) =>
          LET h == Val(result'.ret)
              n == Cardinality(macro_variables_history)
          IN  /\ macro_variables_history' = macro_variables_history
              /\ Len(h) = Min(result'.args[1], n)
              /\ Range(h) \subseteq macro_variables_history
              /\ \A r \in Range(h), o \in macro_variables_history \ Range(h) :
                     o.timestamp <= r.timestamp
              /\ \A i \in 1..(Len(h) - 1) :
                     IF result'.args[2] THEN h[i].timestamp <= h[i + 1].timestamp
                     ELSE h[i].timestamp >= h[i + 1].timestamp ]_vars

\* ----------------------------------------------- claims: the classifier
\* The decision list of the regimes: label and condition, in order.
RegimeRules(growth, inflation) ==
    << << "Boom", growth > Dbl(40) /\ inflation > Dbl(40) >>,
       << "Goldilocks", growth > Dbl(30) /\ inflation < Dbl(30) >>,
       << "Overheating", growth > Dbl(30) /\ inflation > Dbl(30) >>,
       << "Stagnation", growth < Dbl(10) /\ inflation < Dbl(20) >>,
       << "Stagflation", growth < Dbl(10) /\ inflation > Dbl(30) >>,
       << "Recession", growth < 0 >>,
       << "Expansion", TRUE >> >>

FirstRuleLabel(growth, inflation) ==
    LET rules == RegimeRules(growth, inflation)
        k == CHOOSE k \in 1..Len(rules) :
                 rules[k][2] /\ \A j \in 1..(k - 1) : ~rules[j][2]
    IN  rules[k][1]

Classified(r) == r.op \in { "describe_regime", "_describe_regime" } /\ r.args # << >>

\* C15: for every state, the name the engine's describe_regime returns and
\* the name the templates' _describe_regime returns are the label of the
\* first rule of the list (Boom, Goldilocks, Overheating, Stagnation,
\* Stagflation, Recession, else Expansion) the state satisfies; the two
\* agree, and the name does not depend on volatility.
C15_FirstRuleWins ==
    Classified(result) =>
        LET state == result.args[1]
        IN  /\ Val(result.ret) = FirstRuleLabel(state.growth, state.inflation)
            /\ regime_of(state) = template_regime_of(state)
            /\ \A v \in VolatilityValues :
                   /\ regime_of([state EXCEPT !.volatility = Dbl(v)]) = regime_of(state)
                   /\ template_regime_of([state EXCEPT !.volatility = Dbl(v)]) =
                          template_regime_of(state)

\* The templates have classified (4.5, 4.5): Boom, the first of the two
\* rules (Boom, Overheating) the state satisfies.
C15_Witness ==
    /\ result.op = "_describe_regime"
    /\ result.args[1].growth = Dbl(45)
    /\ result.args[1].inflation = Dbl(45)
    /\ RegimeRules(Dbl(45), Dbl(45))[3][2]
    /\ Val(result.ret) = "Boom"

\* C16 as claimed: the state {growth: -0.5, inflation: 1.0} is classified
\* "Recession", whatever its volatility.
C16_RecessionExample ==
    (Classified(result) /\ result.args[1].growth = Dbl(-5) /\ result.args[1].inflation = Dbl(10))
        => Val(result.ret) = "Recession"

\* C16 as amended: the state {growth: -0.5, inflation: 1.0} is classified
\* "Stagnation", whatever its volatility: the rule of Stagnation (growth <
\* 1.0 and inflation < 2.0) comes before the rule of Recession (growth < 0).
C16_StagnationExample ==
    (Classified(result) /\ result.args[1].growth = Dbl(-5) /\ result.args[1].inflation = Dbl(10))
        => Val(result.ret) = "Stagnation"

\* The engine has classified {growth: -0.5, inflation: 1.0, volatility: 13.0}.
C16_Witness ==
    /\ result.op = "describe_regime"
    /\ result.args # << >>
    /\ result.args[1] = [ growth |-> Dbl(-5), inflation |-> Dbl(10), volatility |-> Dbl(130) ]
    /\ Val(result.ret) = "Stagnation"

\* ------------------------------------- claims: progress and conversions
\* C17: get_progress reports total = len(events), processed = current_index,
\* remaining = total - processed and percentage = processed / total * 100
\* (0 for an empty timeline), the percentage being the float the program
\* computes: the exact percentage num / den where the roundings cancel or
\* add nothing, and otherwise off it by what the rounding of the quotient and of the product
\* added, at most the 2^-51 part of it (1 of 3 events gives
\* 33.33333333333333, which is 100/3 - 256 / (3 * 2^54)).  So
\* processed + remaining = total and 0 <= percentage <= 100 (the deviation
\* is less than 1 / den, so the percentage exceeds 100 only if num / den
\* does or if it is 100 and the deviation is positive); with 10 events of
\* which 4 are processed it reports 10, 4, 6 and 40.0.
C17_ProgressArithmetic ==
    result.op = "get_progress" =>
        LET p == Val(result.ret)
            pct == p.progress_percentage
        IN  /\ result.err = "none"
            /\ p.total_events = Len(events)
            /\ p.processed_events = current_index
            /\ p.remaining_events = p.total_events - p.processed_events
            /\ p.processed_events + p.remaining_events = p.total_events
            /\ pct[2] > 0
            /\ IF p.total_events = 0 THEN pct[1] = 0 /\ pct[3] = 0
               ELSE /\ pct[1] * p.total_events = p.processed_events * 100 * pct[2]
                    /\ \/ pct[3] = 0
                       \/ /\ pct[4] >= 52
                          /\ pct[3] <= pct[1] * Pow2(pct[4] - 51)
                          /\ -pct[3] <= pct[1] * Pow2(pct[4] - 51)
            /\ pct[1] >= 0 /\ (pct[1] = 0 => pct[3] >= 0)
            /\ pct[1] < 100 * pct[2] \/ (pct[1] = 100 * pct[2] /\ pct[3] <= 0)
            /\ (p.total_events = 10 /\ p.processed_events = 4) =>
                   (p.remaining_events = 6 /\ pct[1] = 40 * pct[2] /\ pct[3] = 0)
            /\ (p.total_events = 3 /\ p.processed_events = 1) =>
                   pct = << 100, 3, -256, 54 >>

\* get_progress has reported on a timeline of 10 events with 4 processed.
C17_Witness ==
    /\ Len(events) = 10
    /\ current_index = 4
    /\ result.op = "get_progress"
    /\ Val(result.ret).total_events = 10
    /\ Val(result.ret).processed_events = 4
    /\ Val(result.ret).remaining_events = 6
    /\ Val(result.ret).progress_percentage[1] = 40 * Val(result.ret).progress_percentage[2]
    /\ Val(result.ret).progress_percentage[3] = 0

\* C18: get_progress never fails; before start() it reports
\* current_simulated_time as None, after start() it reports the simulated
\* time of the current instant; it changes neither current_index nor the
\* anchors.
C18_ProgressBeforeStart ==
    [][ result'.op = "get_progress" =>
          /\ result'.err = "none"
          /\ UNCHANGED << current_index, simulation_start_time, real_start_time >>
          /\ IF Unstarted
             THEN IsNone(Val(result'.ret).current_simulated_time)
             ELSE LET t == Val(result'.ret).current_simulated_time
                  IN  /\ ~IsNone(t)
                      /\ Val(t)[2] > 0
                      /\ Val(t)[1] = Val(simulation_start_time) * Val(t)[2]
                                       + (now - Val(real_start_time)) ]_vars

\* get_progress has answered on an unstarted scheduler that holds events:
\* the simulated time is None.
C18_Witness ==
    /\ Unstarted
    /\ events # << >>
    /\ result.op = "get_progress"
    /\ result.err = "none"
    /\ IsNone(Val(result.ret).current_simulated_time)
    /\ Val(result.ret).total_events = Len(events)

\* Compressions the round trip is computed for.
MaxCompression == 3

\* C19: for every anchor, every compression D > 0 and every simulated time
\* t, the real offset of t ((t - anchor) days times D), converted back as
\* _get_current_simulated_time converts (anchor + offset / D days), is t;
\* the offset of the anchor is 0.  Once started, this holds of the
\* scheduler's own anchor for the datetime of each of its events.
C19_RoundTrip ==
    /\ \A anchor \in 0..MaxDate, D \in 1..MaxCompression, t \in 0..(MaxDate + 1) :
           LET back == simulated_time_at(real_offset_of(t, anchor, D), anchor, D)
           IN  /\ back[2] > 0
               /\ back[1] = t * back[2]
               /\ real_offset_of(anchor, anchor, D) = 0
    /\ ~Unstarted =>
           /\ simulated_time_to_real_time(Val(simulation_start_time)) = 0
           /\ \A i \in 1..Len(events) :
                  LET t == events[i].sim_datetime
                      back == simulated_time_at(simulated_time_to_real_time(t),
                                                Val(simulation_start_time),
                                                DEMO_DAY_DURATION)
                  IN  back[1] = t * back[2]

\* A wait has ended at the real offset of an event later than the anchor,
\* and get_progress reports that event's datetime as the simulated time.
C19_Witness ==
    /\ ~Unstarted
    /\ result.op = "get_progress"
    /\ Len(delivered) = 2
    /\ delivered[2].sim_datetime > Val(simulation_start_time)
    /\ now - Val(real_start_time) = simulated_time_to_real_time(delivered[2].sim_datetime)
    /\ now > Val(real_start_time)
    /\ LET t == Val(Val(result.ret).current_simulated_time)
       IN  t[1] = delivered[2].sim_datetime * t[2]

\* ----------------------------------------------------- claims: the ties
\* The rows of one kind in a timeline, in the timeline's order.
RowsOfType(timeline, type) ==
    LET sel == SelectSeq(timeline, LAMBDA e : e.type = type)
    IN  [ i \in 1..Len(sel) |-> sel[i].data ]

\* C20: the timeline lists the releases in the order in which the store
\* returned them and the macro events likewise (so two events of one kind
\* with the same datetime keep the store's order); a release precedes a
\* macro event of the same datetime; and skip_to_next_event and
\* wait_until_next_event return the events in the timeline's order.
C20_StableTies ==
    /\ \E rs \in query_with_order(economic_releases, "release_date", TRUE, 0, TRUE),
          es \in query_with_order(macro_events, "event_date", TRUE, 0, TRUE) :
           /\ provided = merge_future_events(rs, es)
           /\ RowsOfType(events, "release") = rs
           /\ RowsOfType(events, "event") = es
    /\ \A i, j \in 1..Len(events) :
           (i < j /\ events[i].sim_datetime = events[j].sim_datetime) =>
               ~(events[i].type = "event" /\ events[j].type = "release")
    /\ SortedByDate(events)
    /\ delivered = [ i \in 1..current_index |->
                       [ type |-> events[i].type, data |-> events[i].data,
                         sim_datetime |-> events[i].sim_datetime,
                         real_time_seconds |-> delivered[i].real_time_seconds ] ]

\* Two releases and a macro event of one datetime have all been returned:
\* the releases in the order of the store's answer, which listed the second
\* row first, and the macro event after them.
C20_Witness ==
    /\ Len(delivered) >= 3
    /\ current_index = Len(events)
    /\ ReturnedEvent(result)
    /\ \E i, j, k \in 1..Len(delivered) :
           /\ i < j /\ j < k
           /\ delivered[i].sim_datetime = delivered[k].sim_datetime
           /\ delivered[i].type = "release" /\ delivered[i].data.id = ReleaseId(2)
           /\ delivered[j].type = "release" /\ delivered[j].data.id = ReleaseId(1)
           /\ delivered[k].type = "event"

\* ------------------------------------------- claims: timeline and waits
\* The rows of a table whose has_happened flag is false.
FutureRows(table) == { r \in table : ~r.has_happened }

\* C21: at construction the timeline holds exactly the releases and the
\* macro events whose has_happened flag is false, each once; no operation
\* of the scheduler and no marking of a row in the store changes the
\* timeline afterwards.
C21_TimelineBuiltOnce ==
    /\ { << e.type, e.data >> : e \in Range(events) } =
           { << "release", r >> : r \in FutureRows(economic_releases) }
               \cup { << "event", r >> : r \in FutureRows(macro_events) }
    /\ Len(events) = Cardinality(FutureRows(economic_releases))
                       + Cardinality(FutureRows(macro_events))
    /\ [][events' = events]_vars

\* A release of the timeline has been marked as happened in the store after
\* an event was delivered: the timeline still holds both entries.
C21_Witness ==
    /\ Len(events) = 2
    /\ current_index = 1
    /\ result.op = "mark_release_as_happened"
    /\ result.err = "none"
    /\ \E e \in Range(events), r \in economic_releases :
           /\ e.type = "release"
           /\ e.data.id = r.id
           /\ ~e.data.has_happened
           /\ r.has_happened

\* The real seconds since real_start_time, once started.
Elapsed == now - Val(real_start_time)

\* C22: whenever wait_until_next_event returns event e, the real time
\* elapsed since real_start_time is at least e's real offset (each sleep
\* lasting at least the duration asked for) and current_index has grown by
\* 1; when the offset minus the elapsed time is <= 0 at the call it returns
\* e without suspending, and when it is > 0 it suspends.
C22_NeverEarly ==
    [][ /\ (result'.op = "wait_until_next_event" /\ ReturnedEvent(result')) =>
              /\ Val(result'.ret).real_time_seconds <= now' - Val(real_start_time')
              /\ Val(result'.ret).data = events[current_index + 1].data
              /\ current_index' = current_index + 1
              /\ UNCHANGED << simulation_start_time, real_start_time >>
        /\ (pc = "idle" /\ result'.op = "wait_until_next_event" /\ ReturnedEvent(result')) =>
              /\ simulated_time_to_real_time(events[current_index + 1].sim_datetime) - Elapsed <= 0
              /\ now' = now
              /\ pc' = "idle"
        /\ (pc = "idle" /\ pc' = "sleeping") =>
              /\ wait_time' = simulated_time_to_real_time(events[current_index + 1].sim_datetime)
                                - Elapsed
              /\ wait_time' > 0
              /\ current_index' = current_index ]_vars

\* A wait of more than 5 seconds has ended, after a sleep that lasted longer
\* than asked: the event is returned later than its offset.
C22_Witness ==
    /\ result.op = "wait_until_next_event"
    /\ ReturnedEvent(result)
    /\ Val(result.ret).real_time_seconds > 5
    /\ current_index = 2
    /\ Elapsed > Val(result.ret).real_time_seconds

\* C23: every suspension of wait_until_next_event is asked to last at most
\* 1 second, whatever the positive wait time.
C23_BoundedSlices ==
    pc = "sleeping" => sleep_chunk <= 1

\* C27: a sleep of wait_until_next_event that is interrupted leaves
\* current_index, the timeline and the anchors unchanged, and the event that
\* was awaited is still the next one: a get_next_event that follows returns
\* it.
C27_InterruptKeepsEvent ==
    /\ [][ result'.err = "Interrupted" =>
             /\ pc = "sleeping"
             /\ UNCHANGED << current_index, events, simulation_start_time,
                             real_start_time, delivered >>
             /\ current_index' < Len(events')
             /\ Val(pending_event).data = events'[current_index' + 1].data
             /\ Val(pending_event).sim_datetime = events'[current_index' + 1].sim_datetime ]_vars
    /\ [][ (result.err = "Interrupted" /\ result'.op \in Peeking /\ ~IsNone(result'.ret)) =>
             Val(result'.ret).data = events[current_index + 1].data ]_vars

\* The wait for the second event has been interrupted: the cursor still
\* stands before that event.
C27_Witness ==
    /\ result = Outcome("wait_until_next_event", << >>, "Interrupted", None)
    /\ Len(events) = 2
    /\ current_index = 1
    /\ Len(delivered) = 1
    /\ pc = "idle"

\* ------------------------------------------- claims: the data provider
\* The future rows of `type` that carry the datetime `date`.
FutureRowsAt(type, date) ==
    IF type = "release"
    THEN { r \in FutureRows(economic_releases) : r.release_date = date }
    ELSE { r \in FutureRows(macro_events) : r.event_date = date }

\* C28 as claimed: what DataProvider.get_next_event returns, when its
\* queries succeed, is the first element of the list get_all_future_events
\* returns on the same tables, type and record, and None exactly when that
\* list is empty.
C28_NextIsFirstOfAll ==
    (result.op = "DataProvider.get_next_event" /\ result.err = "none") =>
        \A g \in get_all_future_events :
            result.ret = IF g = << >> THEN None ELSE Some(g[1])

\* C28 as amended: a call of get_next_event whose queries succeed returns
\* None exactly when the list of get_all_future_events is empty; otherwise
\* it returns an event of the type and of the datetime of the list's first
\* element (the release when a release and a macro event share the earliest
\* datetime), and the very record of that element when no other future row
\* of that type carries that datetime.
C28_NextMatchesFirstOfAll ==
    (result.op = "DataProvider.get_next_event" /\ result.err = "none") =>
        \A g \in get_all_future_events :
            IF g = << >> THEN IsNone(result.ret)
            ELSE /\ ~IsNone(result.ret)
                 /\ LET next == Val(result.ret)
                        first == g[1]
                    IN  /\ next[1] = first[1]
                        /\ DateOf(next[1], next[2]) = DateOf(first[1], first[2])
                        /\ next[2] \in FutureRowsAt(next[1], DateOf(next[1], next[2]))
                        /\ (\E r \in FutureRows(macro_events) :
                                r.event_date = DateOf(next[1], next[2])) =>
                               (next[1] = "release"
                                \/ FutureRowsAt("release", DateOf(next[1], next[2])) = {})
                        /\ Cardinality(FutureRowsAt(first[1], DateOf(first[1], first[2]))) = 1
                               => next = first

\* get_next_event has returned the release on tables where a future release
\* and a future macro event share the earliest datetime.
C28_Witness ==
    /\ result.op = "DataProvider.get_next_event"
    /\ result.err = "none"
    /\ ~IsNone(result.ret)
    /\ Val(result.ret)[1] = "release"
    /\ Cardinality(FutureRowsAt("release", Val(result.ret)[2].release_date)) = 1
    /\ \E r \in FutureRows(macro_events) : r.event_date = Val(result.ret)[2].release_date
    /\ \A r \in FutureRows(macro_events) : r.event_date >= Val(result.ret)[2].release_date
    /\ \E g \in get_all_future_events : g[1] = Val(result.ret)

\* ------------------------------------------- claims: the regime rules
\* The label of the first rule a state satisfies when rules 1-3 are tested
\* in the given order and rules 4-7 after them.
FirstRuleLabelInOrder(order, growth, inflation) ==
    LET rules == RegimeRules(growth, inflation)
        seq == order \o << 4, 5, 6, 7 >>
        k == CHOOSE k \in 1..Len(seq) :
                 rules[seq[k]][2] /\ \A j \in 1..(k - 1) : ~rules[seq[j]][2]
    IN  rules[seq[k]][1]

\* The orders in which rules 1-3 can be tested.
RuleOrders ==
    { o \in [1..3 -> 1..3] : \A a, b \in 1..3 : a # b => o[a] # o[b] }

\* The position of a rule in an order.
PlaceIn(order, rule) == CHOOSE k \in 1..3 : order[k] = rule

\* C25 as claimed: no state satisfies the condition of more than one of the
\* rules 1-3 (Boom, Goldilocks, Overheating), so that the label is the same
\* in whatever order these three rules are tested.
C25_RulesExclusive ==
    Classified(result) =>
        LET state == result.args[1]
            rules == RegimeRules(state.growth, state.inflation)
        IN  /\ \A a, b \in 1..3 : a # b => ~(rules[a][2] /\ rules[b][2])
            /\ \A o \in RuleOrders :
                   FirstRuleLabelInOrder(o, state.growth, state.inflation) = Val(result.ret)

\* C25 as amended: the condition of Goldilocks excludes those of Boom and of
\* Overheating, but every state that satisfies Boom also satisfies
\* Overheating; the label is the same in every order of rules 1-3 that
\* tests Boom before Overheating, and an order that tests Overheating before
\* Boom labels the Boom states Overheating.
C25_BoomWithinOverheating ==
    Classified(result) =>
        LET state == result.args[1]
            rules == RegimeRules(state.growth, state.inflation)
        IN  /\ ~(rules[2][2] /\ rules[1][2])
            /\ ~(rules[2][2] /\ rules[3][2])
            /\ rules[1][2] => rules[3][2]
            /\ \A o \in RuleOrders :
                   FirstRuleLabelInOrder(o, state.growth, state.inflation) =
                       IF PlaceIn(o, 3) < PlaceIn(o, 1) /\ rules[1][2]
                       THEN "Overheating"
                       ELSE Val(result.ret)

\* The engine has classified {growth: 4.5, inflation: 4.5} as Boom; tested
\* with Overheating first, the rules label it Overheating.
C25_Witness ==
    /\ result.op = "describe_regime"
    /\ result.args # << >>
    /\ result.args[1].growth = Dbl(45)
    /\ result.args[1].inflation = Dbl(45)
    /\ Val(result.ret) = "Boom"
    /\ FirstRuleLabelInOrder(<< 3, 1, 2 >>, Dbl(45), Dbl(45)) = "Overheating"

\* C29: describe_regime returns "Recession" exactly for the states with
\* growth < 0 and 2.0 <= inflation <= 3.0; a state with growth < 0 and
\* inflation < 2.0 is labelled Stagnation, one with growth < 0 and
\* inflation > 3.0 Stagflation (rules 4 and 5 come before rule 6); the
\* templates' _describe_regime does the same.
C29_RecessionBand ==
    Classified(result) =>
        LET state == result.args[1]
        IN  /\ Val(result.ret) = "Recession" <=>
                   (state.growth < 0 /\ Dbl(20) <= state.inflation /\ state.inflation <= Dbl(30))
            /\ (state.growth < 0 /\ state.inflation < Dbl(20)) => Val(result.ret) = "Stagnation"
            /\ (state.growth < 0 /\ state.inflation > Dbl(30)) => Val(result.ret) = "Stagflation"

\* The engine has classified {growth: -2.0, inflation: 3.0}, on the upper
\* edge of the band, as Recession.
C29_Witness ==
    /\ result.op = "describe_regime"
    /\ result.args # << >>
    /\ result.args[1].growth = Dbl(-20)
    /\ result.args[1].inflation = Dbl(30)
    /\ Val(result.ret) = "Recession"

\* ------------------------------------- claims: the authoritative state
\* C26: right after a successful apply_release_impact / apply_event_impact
\* that returned state S, whatever the history and the timestamp argument
\* (an explicit timestamp earlier than an existing entry's included), the
\* state get_current_state reads is S, values and timestamp.
C26_AppliedIsCurrent ==
    (Applied(result) /\ ~IsNone(result.ret)) =>
        \A h \in latest_rows : StateOf(h[1]) = Val(result.ret)

\* ----------------------------------------------- claims: racing applies
\* Caller c has returned a state from apply_release_impact / apply_event_impact.
AppliedBy(c) ==
    /\ in_flight[c].pc = "done"
    /\ in_flight[c].op \in ApplyOps
    /\ in_flight[c].err = "none"

\* The pairs of callers whose applies both started from the same state, both
\* returned, and are the only ones that have written to the history.
RacedPairs ==
    { p \in Callers \X Callers :
        /\ p[1] # p[2]
        /\ AppliedBy(p[1]) /\ AppliedBy(p[2])
        /\ in_flight[p[1]].current = in_flight[p[2]].current
        /\ \A e \in Callers \ { p[1], p[2] } : IsNone(in_flight[e].appended) }

\* The current state after the race of the pair p is the row of one of the
\* two calls, the one of the greater timestamp, and holds the state both
\* started from plus the impacts of that call's event alone.
OneDeltaOnly(p, h) ==
    LET read == Val(in_flight[p[1]].current)
    IN  \E c \in { p[1], p[2] } :
            /\ h = Val(in_flight[c].appended)
            /\ \A d \in { p[1], p[2] } : Val(in_flight[d].appended).timestamp <= h.timestamp
            /\ h.growth = float_add(read.growth, Dbl(Val(in_flight[c].event).impact_growth))
            /\ h.inflation =
                   float_add(read.inflation, Dbl(Val(in_flight[c].event).impact_inflation))
            /\ TenthsOf(h.growth) =
                   TenthsOf(read.growth) + Val(in_flight[c].event).impact_growth
            /\ h.volatility = new_values(read, Val(in_flight[c].event)).volatility

\* C24: two apply calls on the same history are not guarded against each
\* other: when both start from the same latest state, both appends are
\* stored and both calls return, no conflict raised; the current state is
\* then the later write of the two, and it holds the impacts of that call's
\* event alone (last write wins).
C24_LastWriteWins ==
    \A p \in RacedPairs :
        /\ \A c \in { p[1], p[2] } : Val(in_flight[c].appended) \in macro_variables_history
        /\ Val(in_flight[p[1]].appended) # Val(in_flight[p[2]].appended)
        /\ \A h \in latest_rows :
               /\ OneDeltaOnly(p, h[1])
               /\ \A d \in { p[1], p[2] } : Val(in_flight[d].appended).id <= h[1].id

\* A release and a macro event, both moving growth, have been applied by
\* two callers that started from the same state: the current growth is that
\* state's plus the impact of one of them, not of both, and the current state
\* is the row written first (its call took its timestamp last).
C24_Witness ==
    \E p \in RacedPairs :
        /\ in_flight[p[1]].cause_type # in_flight[p[2]].cause_type
        /\ \A c \in { p[1], p[2] } : Val(in_flight[c].event).impact_growth # 0
        /\ \E h \in latest_rows :
               /\ TenthsOf(h[1].growth) # TenthsOf(Val(in_flight[p[1]].current).growth)
                                               + Val(in_flight[p[1]].event).impact_growth
                                               + Val(in_flight[p[2]].event).impact_growth
               /\ h[1] = Val(in_flight[p[1]].appended)
               /\ h[1].id < Val(in_flight[p[2]].appended).id

\* ------------------------------------------------ claims: the run loop
\* The timeline entries of the events returned, in the order of return.
EntriesReturned ==
    [ k \in 1..Len(delivered) |->
        [ type |-> delivered[k].type, data |-> delivered[k].data,
          sim_datetime |-> delivered[k].sim_datetime ] ]

\* The loop has received None from a started scheduler.
RunFinished == ~IsNone(real_start_time) /\ ~Running

\* C30: on a started scheduler with N timeline events, the loop that calls
\* skip_to_next_event or wait_until_next_event until it gets None
\* terminates; at every moment the events returned so far are the first
\* current_index entries of the timeline, in order, and when None comes
\* back exactly N calls have returned an event and the events returned are
\* the timeline itself: no entry skipped, none returned twice.
C30_RunReturnsEachOnce ==
    /\ [](EntriesReturned = SubSeq(events, 1, current_index))
    /\ [](RunFinished => (Len(delivered) = Len(events) /\ EntriesReturned = events))
    /\ <>(events = << >> \/ RunFinished)

\* A run over a timeline of four events has ended, on a None from
\* wait_until_next_event, after a sleep.
C30_Witness ==
    /\ RunFinished
    /\ result.op = "wait_until_next_event"
    /\ Len(events) = 2 * TieRows
    /\ Len(delivered) = Len(events)
    /\ now > Val(real_start_time)

====
